---------------------------- MODULE Spec2Model ----------------------------
(***************************************************************************)
(* A model of the sparse voxel octree of oakum: the node pool with its     *)
(* free list of 8-slot branch blocks (src/src/octree/mod.rs), the 8-byte   *)
(* node record (src/src/octree/node.rs) and the branch coordinate with its *)
(* child-index arithmetic (src/src/octree/branch.rs).                      *)
(*                                                                         *)
(* Rust indices are 0-based: node i of the pool is nodes[i + 1] here.      *)
(* u32 / i32 values are modelled by integers; every value the bounded      *)
(* model computes stays far below 2^31, so no operation wraps.  A bit test *)
(* x & (1 << k) != 0 is (x \div 2^k) % 2 = 1, which is the two's           *)
(* complement bit for negative x as well (\div floors).                    *)
(***************************************************************************)
EXTENDS Integers, Sequences, FiniteSets, TLC

VARIABLES
    nodes,          \* Octree::nodes
    free_branches,  \* Octree::free_branches
    cur_branch,     \* a Branch value
    segments,       \* DynamicOctree::segments
    underflow,      \* `segment.len -= 8` has been executed with len < 8
    drained,        \* the node pool when the segments were last drained
    pc,             \* the call of App::render that comes next
    outcome,        \* how render_frame ended in the last frame
    mirror,         \* DrawOctree::texture, as nodes
    page_height,    \* DrawOctree::page_height
    page_count,     \* DrawOctree::page_count
    last_segment,   \* the segment of the last write_segment
    writes,         \* the writes the last write_segment put in the queue
    needs_configure,\* Renderer::needs_configure
    surface_config, \* Renderer::surface_config, width and height
    taa_sample,     \* Renderer::taa_sample
    calls,          \* the calls the last render_frame made on the surface
    returned,       \* what the last render_frame returned
    taken,          \* what the last take_segments returned
    ray,            \* the ray of the last raycast_normalized
    hit,            \* what the last raycast_normalized returned
    generator,      \* the generator of the last Octree::generate
    csg,            \* the last join or difference and the calls it made
    probe,          \* the last call of a function of this module and its result
    twin            \* an Octree that is given the calls of the DynamicOctree

vars == <<nodes, free_branches, cur_branch, segments, underflow, drained,
          pc, outcome, mirror, page_height, page_count, last_segment,
          writes, needs_configure, surface_config, taa_sample, calls,
          returned, taken, ray, hit, generator, csg, probe, twin>>

\* the state of the texture
texture == <<page_height, page_count, last_segment, writes>>

\* the state of the frames
frames == <<pc, outcome, mirror>>

\* the state of the Renderer and its surface
renderer == <<needs_configure, surface_config, taa_sample, calls, returned>>

\* the state of the raycaster
caster == <<ray, hit>>

\* the state of generate, join and difference
built == <<generator, csg>>

\* the state of the calls by themselves and of the Octree beside the
\* DynamicOctree
probes == <<probe, twin>>

\* the state of the sections after the texture
later == <<renderer, taken, caster, built, probes>>

\* what a call on the Octree leaves alone
aside_octree ==
    <<cur_branch, segments, underflow, drained, frames, texture, later>>

(***************************************************************************)
(* Bounds of the model.                                                    *)
(***************************************************************************)
\* deepest branch an operation is called with
MaxDepth == 2
\* an operation is taken only if it leaves at most this many 8-slot blocks
\* in the pool (set and remove can leak blocks, so the pool can grow
\* without bound)
MaxBlocks == 3
\* an operation on the DynamicOctree is taken only if it leaves at most this
\* many blocks in the pool
MaxDynamicBlocks == 2

(***************************************************************************)
(* Node (node.rs)                                                          *)
(***************************************************************************)
SOLID_BIT == 1
PARENT_BIT == 2
SHADOW_BIT == 4
EMPTY_MASK == 3

RECURSIVE Pow2(_)
Pow2(k) == IF k = 0 THEN 1 ELSE 2 * Pow2(k - 1)

\* flags & bit != 0, for bit a power of two
HasBit(flags, bit) == (flags \div bit) % 2 = 1

empty == [flags |-> 0, data |-> 0]

solid(r, g, b) ==
    [flags |-> SOLID_BIT + SHADOW_BIT, data |-> b * Pow2(16) + g * Pow2(8) + r]

translucent(r, g, b) ==
    [flags |-> SOLID_BIT, data |-> b * Pow2(16) + g * Pow2(8) + r]

parent(pointer) == [flags |-> PARENT_BIT, data |-> pointer]

is_parent(n) == HasBit(n.flags, PARENT_BIT)

is_solid(n) == HasBit(n.flags, SOLID_BIT)

\* flags & EMPTY_MASK == 0
is_empty(n) == n.flags % (EMPTY_MASK + 1) = 0

pointer(n) == n.data

(***************************************************************************)
(* Branch (branch.rs): path is <<x, y, z>>                                 *)
(***************************************************************************)
Branch(x, y, z, depth) == [path |-> <<x, y, z>>, depth |-> depth]

BranchRoot == Branch(0, 0, 0, 0)

\* the bits of a path component: IVec3 holds i32
PathBits == 32

\* `axis + half` in is_positive overflows i32: at depth 32 half is
\* (1 << 31) as i32 = -2^31, and the sum with a negative axis is below
\* -2^31.  A build with overflow checks panics there, one without wraps.
is_positive_overflows(b, axis) == b.depth = PathBits /\ axis < 0

\* is_positive at depth 32, with the sum wrapped: bit 31 of the sum is set
\* for axis >= 0 (the sum is negative) and clear for axis < 0 (the sum has
\* wrapped to axis + 2^31); the bits below are those of axis + 2^31
\* modulo 2^31
is_positive_wrapped(b, depth, axis) ==
    IF b.depth - depth - 1 = PathBits - 1 THEN axis >= 0
    ELSE LET low == IF axis < 0 THEN (axis + Pow2(PathBits - 2))
                                         + Pow2(PathBits - 2)
                    ELSE axis
         IN  (low \div Pow2(b.depth - depth - 1)) % 2 = 1

is_positive(b, depth, axis) ==
    IF b.depth = PathBits THEN is_positive_wrapped(b, depth, axis)
    ELSE LET half == Pow2(b.depth - 1)
             mask == Pow2(b.depth - depth - 1)
             absolute == axis + half
         IN  (absolute \div mask) % 2 = 1

\* child with the bits of x and z exchanged
child_zyx(b, depth) ==
      (IF is_positive(b, depth, b.path[1]) THEN 4 ELSE 0)
    + (IF is_positive(b, depth, b.path[2]) THEN 2 ELSE 0)
    + (IF is_positive(b, depth, b.path[3]) THEN 1 ELSE 0)

child(b, depth) ==
      (IF is_positive(b, depth, b.path[1]) THEN 1 ELSE 0)
    + (IF is_positive(b, depth, b.path[2]) THEN 2 ELSE 0)
    + (IF is_positive(b, depth, b.path[3]) THEN 4 ELSE 0)

\* with_child without the case of the root: twice the path, plus the bit
with_child_axis_no_root(b, axis, bit) == b.path[axis] * 2 + bit

\* one axis of with_child; bit is child & 1, child & 2 or child & 4 (non-zero or 0)
with_child_axis(b, axis, bit) ==
    IF bit # 0 /\ b.depth > 0 THEN b.path[axis] * 2 + 1
    ELSE IF bit = 0 /\ b.depth = 0 THEN -1
    ELSE b.path[axis] * 2

with_child(b, c) ==
    [path |-> << with_child_axis(b, 1, c % 2),
                 with_child_axis(b, 2, (c \div 2) % 2),
                 with_child_axis(b, 3, (c \div 4) % 2) >>,
     depth |-> b.depth + 1]

(***************************************************************************)
(* Octree pool (mod.rs).  An octree value is a record                      *)
(* [nodes, free_branches]; the operations return the octree they leave.    *)
(***************************************************************************)
new == [nodes |-> <<empty>>, free_branches |-> <<>>]

root == 0

len(o) == Len(o.nodes)

\* self[index]
Index(o, index) == o.nodes[index + 1]

\* self[index] = node
IndexMut(o, index, node) == [o EXCEPT !.nodes[index + 1] = node]

\* eight copies of a node: [node; 8]
Eight(node) == <<node, node, node, node, node, node, node, node>>

\* self[first .. first + 8].fill(node)
Fill8(o, first, node) ==
    [o EXCEPT !.nodes = SubSeq(o.nodes, 1, first) \o Eight(node)
                        \o SubSeq(o.nodes, first + 9, Len(o.nodes))]

extend(o, ns) == [o EXCEPT !.nodes = o.nodes \o ns]

\* push_branch that reads the last free block without popping it
push_branch_peek(o) ==
    IF o.free_branches # <<>>
    THEN LET i == o.free_branches[Len(o.free_branches)]
         IN  [oct |-> Fill8(o, i, empty), index |-> i]
    ELSE [oct |-> extend(o, Eight(empty)), index |-> len(o)]

\* returns the octree and the index of the block
push_branch(o) ==
    IF o.free_branches # <<>>
    THEN LET i == o.free_branches[Len(o.free_branches)]
             popped == [o EXCEPT !.free_branches =
                            SubSeq(o.free_branches, 1, Len(o.free_branches) - 1)]
         IN  [oct |-> Fill8(popped, i, empty), index |-> i]
    ELSE [oct |-> extend(o, Eight(empty)), index |-> len(o)]

\* remove_branch that truncates the tail block and puts it on the free list
\* as well
remove_branch_both(o, index) ==
    IF index = len(o) - 8
    THEN [o EXCEPT !.nodes = SubSeq(o.nodes, 1, index),
                   !.free_branches = Append(o.free_branches, index)]
    ELSE [o EXCEPT !.free_branches = Append(o.free_branches, index)]

\* remove_branch that forgets the block: neither truncated nor pushed
remove_branch_never(o, index) == o

\* remove_branch that truncates one node too late
remove_branch_keep_first(o, index) ==
    IF index = len(o) - 8
    THEN [o EXCEPT !.nodes = SubSeq(o.nodes, 1, index + 1)]
    ELSE [o EXCEPT !.free_branches = Append(o.free_branches, index)]

remove_branch(o, index) ==
    IF index = len(o) - 8
    THEN [o EXCEPT !.nodes = SubSeq(o.nodes, 1, index)]
    ELSE [o EXCEPT !.free_branches = Append(o.free_branches, index)]


(***************************************************************************)
(* Segment and the segment list of DynamicOctree (dynamic.rs).  A list is  *)
(* a sequence of [start, len]; Rust index i of the list is element i + 1.  *)
(***************************************************************************)
BATCH_THRESHOLD == 1024

Segment(start, length) == [start |-> start, len |-> length]

Segment_end(s) == s.start + s.len

batch_end(s) == Segment_end(s) + BATCH_THRESHOLD

Min(a, b) == IF a <= b THEN a ELSE b

Max(a, b) == IF a >= b THEN a ELSE b

\* join with the end of self as the end
Segment_join_own_end(s, other) ==
    LET start == Min(s.start, other.start)
    IN  [start |-> start, len |-> Segment_end(s) - start]

Segment_join(s, other) ==
    LET start == Min(s.start, other.start)
        last == Max(Segment_end(s), Segment_end(other))
    IN  [start |-> start, len |-> last - start]

\* binary_search_by_key(&segment.start, |s| s.start) on a list sorted by
\* start with distinct starts: Ok(index) of the segment with that start,
\* or Err(i) with i the number of segments that start before it
segment_before(segs, segment) ==
    LET same == { k \in 1..Len(segs) : segs[k].start = segment.start }
        before == { k \in 1..Len(segs) : segs[k].start < segment.start }
    IN  IF same # {}
        THEN [ok |-> TRUE, index |-> (CHOOSE k \in same : TRUE) - 1]
        ELSE [ok |-> FALSE, index |-> Cardinality(before)]

\* self.segments.insert(i, segment)
Insert(segs, i, segment) ==
    SubSeq(segs, 1, i) \o <<segment>> \o SubSeq(segs, i + 1, Len(segs))

\* self.segments.remove(i)
Remove(segs, i) == SubSeq(segs, 1, i) \o SubSeq(segs, i + 2, Len(segs))

\* the loop without its break: every later segment is joined
RECURSIVE MergeAfter_no_break(_, _, _, _)
MergeAfter_no_break(segs, after, segment, todo) ==
    IF todo = 0 THEN segs
    ELSE MergeAfter_no_break(
             Remove([segs EXCEPT ![after] = Segment_join(segs[after],
                                                         segs[after + 1])],
                    after),
             after, segment, todo - 1)

\* "join all segments that overlap with the new one":
\* for _ in after..self.segments.len(), todo iterations left
RECURSIVE MergeAfter(_, _, _, _)
MergeAfter(segs, after, segment, todo) ==
    IF todo = 0 THEN segs
    ELSE IF segs[after + 1].start >= batch_end(segment) THEN segs
    ELSE MergeAfter(
             Remove([segs EXCEPT ![after] = Segment_join(segs[after],
                                                         segs[after + 1])],
                    after),
             after, segment, todo - 1)

\* the first half of push_segment: the list and the index after
PlaceSegment(segs, segment) ==
    LET found == segment_before(segs, segment)
        i == found.index
    IN  IF found.ok
        THEN [segs |-> [segs EXCEPT ![i + 1] = Segment_join(segs[i + 1], segment)],
              after |-> i + 1]
        ELSE IF i > 0 /\ batch_end(segs[i]) >= segment.start
        THEN [segs |-> [segs EXCEPT ![i] = Segment_join(segs[i], segment)],
              after |-> i]
        ELSE [segs |-> Insert(segs, i, segment), after |-> i + 1]

\* the second half of push_segment, from the list and index of the first
MergeFrom(placed, segment) ==
    MergeAfter(placed.segs, placed.after, segment,
               Len(placed.segs) - placed.after)

push_segment(segs, segment) ==
    MergeFrom(PlaceSegment(segs, segment), segment)

(***************************************************************************)
(* DynamicOctree (dynamic.rs): an Octree together with the segments of     *)
(* the node pool written since they were last taken.  A DynamicOctree      *)
(* value is a record [nodes, free_branches, segments, underflow]; the      *)
(* operations of Octree apply to it through Deref and leave the last two   *)
(* fields alone.  underflow becomes TRUE when `segment.len -= 8` is        *)
(* executed with len < 8: a build with overflow checks panics there, one   *)
(* without leaves len = 2^32 + len - 8.  The operations do nothing on a    *)
(* value whose underflow is TRUE.                                          *)
(***************************************************************************)
DynamicOctree_empty ==
    [nodes |-> new.nodes, free_branches |-> new.free_branches,
     segments |-> <<>>, underflow |-> FALSE]

\* DynamicOctree::new(octree): one segment over the whole pool
DynamicOctree_new(o) ==
    [nodes |-> o.nodes, free_branches |-> o.free_branches,
     segments |-> << Segment(0, len(o)) >>, underflow |-> FALSE]

\* IndexMut<u32> for DynamicOctree
DynamicOctree_index_mut(o, index, node) ==
    IF o.underflow THEN o
    ELSE IndexMut([o EXCEPT !.segments = push_segment(@, Segment(index, 1))],
                  index, node)

\* self.push_segment(Segment::new(index, 8)) on the pushed branch
PushBranchSegment(pb) ==
    [oct |-> [pb.oct EXCEPT !.segments = push_segment(@, Segment(pb.index, 8))],
     index |-> pb.index]

\* DynamicOctree::push_branch
DynamicOctree_push_branch(o) ==
    IF o.underflow THEN [oct |-> o, index |-> 0]
    ELSE PushBranchSegment(push_branch(o))

\* the rest of DynamicOctree::remove_branch, after the Octree has removed
\* the branch: `if segment.end() > self.len() { segment.len -= 8 }` on the
\* last segment
ShrinkLastSegment(o) ==
    IF Len(o.segments) > 0
       /\ Segment_end(o.segments[Len(o.segments)]) > len(o)
    THEN IF o.segments[Len(o.segments)].len >= 8
         THEN [o EXCEPT !.segments[Len(o.segments)].len = @ - 8]
         ELSE [o EXCEPT !.underflow = TRUE]
    ELSE o

\* DynamicOctree::remove_branch
DynamicOctree_remove_branch(o, index) ==
    IF o.underflow THEN o
    ELSE ShrinkLastSegment(remove_branch(o, index))

(***************************************************************************)
(* impl_octree!: set, remove, join, difference (mod.rs)                    *)
(***************************************************************************)
\* for child in 0..8 { self[first + child] = node }
RECURSIVE StoreChildren(_, _, _, _)
StoreChildren(o, first, node, c) ==
    IF c = 8 THEN o
    ELSE StoreChildren(IndexMut(o, first + c, node), first, node, c + 1)

\* a split that does not copy the old node to the new branch
SetSplit_no_copy(o, par, node) ==
    LET pb == push_branch(o) IN IndexMut(pb.oct, par, parent(pb.index))

\* set: "if the node is not a parent, we need to split it"
SetSplit(o, par, node) ==
    LET pb == push_branch(o)
        copied == IF is_solid(node)
                  THEN StoreChildren(pb.oct, pb.index, node, 0)
                  ELSE pb.oct
    IN  IndexMut(copied, par, parent(pb.index))

\* set: "traverse down the tree until we reach the leaf"; returns the
\* octree, the slot reached and the stack of the slots passed
RECURSIVE SetDescend(_, _, _, _, _)
SetDescend(o, branch, par, depth, stack) ==
    IF depth >= branch.depth
    THEN [oct |-> o, par |-> par, stack |-> stack]
    ELSE LET node == Index(o, par)
             o1 == IF ~is_parent(node) THEN SetSplit(o, par, node) ELSE o
             ptr == pointer(Index(o1, par))
         IN  SetDescend(o1, branch, ptr + child(branch, depth), depth + 1,
                        Append(stack, par))

\* combine &= self[pointer + child] == node, over the 8 children
Combine(o, ptr, node) == \A c \in 0..7 : Index(o, ptr + c) = node

\* an up-walk that stops after the first parent it has looked at
SetCombine_first_only(o, stack, i, node) ==
    IF i = 0 THEN o
    ELSE LET par == stack[i]
             ptr == pointer(Index(o, par))
         IN  IF Combine(o, ptr, node)
             THEN remove_branch(IndexMut(o, par, node), ptr)
             ELSE o

\* set: "traverse back up the tree and combine leaf nodes", i from the top
\* of the stack down to its first entry
RECURSIVE SetCombine(_, _, _, _)
SetCombine(o, stack, i, node) ==
    IF i = 0 THEN o
    ELSE LET par == stack[i]
             ptr == pointer(Index(o, par))
         IN  IF Combine(o, ptr, node)
             THEN SetCombine(remove_branch(IndexMut(o, par, node), ptr),
                             stack, i - 1, node)
             ELSE SetCombine(o, stack, i - 1, node)

set(o, branch, node) ==
    LET down == SetDescend(o, branch, root, 0, <<>>)
        written == IndexMut(down.oct, down.par, node)
    IN  SetCombine(written, down.stack, Len(down.stack), node)

\* chilren_empty &= self[pointer + child].is_empty(), over the 8 children
ChildrenEmpty(o, ptr) == \A c \in 0..7 : is_empty(Index(o, ptr + c))

\* a split that leaves the new branch empty
RemoveSplit_no_copy(o, par, node) ==
    LET pb == push_branch(o) IN IndexMut(pb.oct, par, parent(pb.index))

\* remove: the split of a solid node
RemoveSplit(o, par, node) ==
    LET pb == push_branch(o)
        copied == StoreChildren(pb.oct, pb.index, node, 0)
    IN  IndexMut(copied, par, parent(pb.index))

RECURSIVE RemoveDescend(_, _, _, _)
RemoveDescend(o, branch, par, depth) ==
    IF depth >= branch.depth
    THEN IndexMut(o, par, empty)
    ELSE LET node == Index(o, par) IN
         IF is_empty(node) THEN o
         ELSE IF is_solid(node)
         THEN LET o1 == RemoveSplit(o, par, node)
                  new_branch == pointer(Index(o1, par))
              IN  RemoveDescend(o1, branch, new_branch + child(branch, depth),
                                depth + 1)
         ELSE LET ptr == pointer(node) IN
              IF ChildrenEmpty(o, ptr)
              THEN remove_branch(IndexMut(o, par, empty), ptr)
              ELSE RemoveDescend(o, branch, ptr + child(branch, depth),
                                 depth + 1)

remove(o, branch) == RemoveDescend(o, branch, root, 0)

(***************************************************************************)
(* NodeIterator (mod.rs): the sequence of (branch, node) that next()       *)
(* yields, in the order it yields them                                     *)
(***************************************************************************)
\* next that pushes the children 1..7 of a parent only
RECURSIVE NodeIteratorNext_seven(_, _, _)
NodeIteratorNext_seven(o, stack, out) ==
    IF stack = <<>> THEN out
    ELSE LET top == stack[Len(stack)]
             rest == SubSeq(stack, 1, Len(stack) - 1)
             node == Index(o, top.index)
         IN  IF is_empty(node) THEN NodeIteratorNext_seven(o, rest, out)
             ELSE IF is_parent(node)
             THEN NodeIteratorNext_seven(o,
                      rest \o [c \in 1..7 |->
                                  [branch |-> with_child(top.branch, c),
                                   index |-> pointer(node) + c]],
                      out)
             ELSE NodeIteratorNext_seven(o, rest,
                      Append(out, [branch |-> top.branch, node |-> node]))

RECURSIVE NodeIteratorNext(_, _, _)
NodeIteratorNext(o, stack, out) ==
    IF stack = <<>> THEN out
    ELSE LET top == stack[Len(stack)]
             rest == SubSeq(stack, 1, Len(stack) - 1)
             node == Index(o, top.index)
         IN  IF is_empty(node) THEN NodeIteratorNext(o, rest, out)
             ELSE IF is_parent(node)
             THEN NodeIteratorNext(o,
                      rest \o [c \in 1..8 |->
                                  [branch |-> with_child(top.branch, c - 1),
                                   index |-> pointer(node) + (c - 1)]],
                      out)
             ELSE NodeIteratorNext(o, rest,
                      Append(out, [branch |-> top.branch, node |-> node]))

iter_nodes(o) ==
    NodeIteratorNext(o, << [branch |-> BranchRoot, index |-> root] >>, <<>>)

(***************************************************************************)
(* join and difference.  The two loops are the same but for the call they  *)
(* make per host branch: HostBranches is the sequence of branches one      *)
(* template leaf is applied to, in the order of the loops.                 *)
(***************************************************************************)
\* path << k on every axis
ShiftPath(path, k) == <<path[1] * Pow2(k), path[2] * Pow2(k), path[3] * Pow2(k)>>

AddPath(p, q) == <<p[1] + q[1], p[2] + q[2], p[3] + q[3]>>

\* for x in 0..half { for y in 0..half { for z in 0..half: the n-th
\* (x, y, z), n from 0
NthOffset(n, half) == << n \div (half * half), (n \div half) % half, n % half >>

\* the host branches with the path of branch added as it is
HostBranches_no_shift(branch, depth, other_branch) ==
    LET d1 == other_branch.depth + depth
        offset == d1 - branch.depth - depth
    IN  IF offset >= 0
        THEN << [path |-> AddPath(other_branch.path,
                                  branch.path),
                 depth |-> d1] >>
        ELSE LET half == Pow2(-offset) IN
             [n \in 1..(half * half * half) |->
                [path |-> AddPath(AddPath(ShiftPath(other_branch.path, -offset),
                                          branch.path),
                                  NthOffset(n - 1, half)),
                 \* other_branch.depth -= offset as u32, wrapping
                 depth |-> d1 - offset]]

HostBranches(branch, depth, other_branch) ==
    LET d1 == other_branch.depth + depth
        offset == d1 - branch.depth - depth
    IN  IF offset >= 0
        THEN << [path |-> AddPath(other_branch.path,
                                  ShiftPath(branch.path, offset)),
                 depth |-> d1] >>
        ELSE LET half == Pow2(-offset) IN
             [n \in 1..(half * half * half) |->
                [path |-> AddPath(AddPath(ShiftPath(other_branch.path, -offset),
                                          branch.path),
                                  NthOffset(n - 1, half)),
                 \* other_branch.depth -= offset as u32, wrapping
                 depth |-> d1 - offset]]

\* self.set(other_branch, *node) for each host branch in turn.  The test on
\* len makes TLC evaluate the octree left by one call before it starts the
\* next one; len is at least 1 in every octree.
RECURSIVE SetAll(_, _, _, _)
SetAll(o, branches, k, node) ==
    IF k > Len(branches) THEN o
    ELSE LET o1 == set(o, branches[k], node) IN
         IF len(o1) >= 1 THEN SetAll(o1, branches, k + 1, node) ELSE o1

\* self.remove(other_branch) for each host branch in turn
RECURSIVE RemoveAll(_, _, _)
RemoveAll(o, branches, k) ==
    IF k > Len(branches) THEN o
    ELSE LET o1 == remove(o, branches[k]) IN
         IF len(o1) >= 1 THEN RemoveAll(o1, branches, k + 1) ELSE o1

RECURSIVE JoinLoop(_, _, _, _, _)
JoinLoop(o, branch, depth, leaves, k) ==
    IF k > Len(leaves) THEN o
    ELSE JoinLoop(SetAll(o, HostBranches(branch, depth, leaves[k].branch), 1,
                         leaves[k].node),
                  branch, depth, leaves, k + 1)

join(o, branch, depth, other) == JoinLoop(o, branch, depth, iter_nodes(other), 1)

RECURSIVE DifferenceLoop(_, _, _, _, _)
DifferenceLoop(o, branch, depth, leaves, k) ==
    IF k > Len(leaves) THEN o
    ELSE DifferenceLoop(RemoveAll(o, HostBranches(branch, depth, leaves[k].branch), 1),
                        branch, depth, leaves, k + 1)

difference(o, branch, depth, other) ==
    DifferenceLoop(o, branch, depth, iter_nodes(other), 1)

(***************************************************************************)
(* impl_octree!(DynamicOctree): the macro of set, remove, join and         *)
(* difference once more, for DynamicOctree.  The steps are those of the    *)
(* operators for Octree above; `self[i] = node`, `self.push_branch()` and  *)
(* `self.remove_branch(i)` are now the methods of DynamicOctree, reads     *)
(* `self[i]` go to the Octree through Index.  A value that a step returns  *)
(* and the following steps read more than once is handed on as a           *)
(* parameter.  A call on a value that has panicked does nothing.           *)
(***************************************************************************)
RECURSIVE DynamicOctree_StoreChildren(_, _, _, _)
DynamicOctree_StoreChildren(o, first, node, c) ==
    IF c = 8 THEN o
    ELSE DynamicOctree_StoreChildren(
             DynamicOctree_index_mut(o, first + c, node), first, node, c + 1)

\* set: the split of a leaf, after `let new_branch = self.push_branch()`
DynamicOctree_SetSplitAt(pb, par, node) ==
    DynamicOctree_index_mut(
        IF is_solid(node)
        THEN DynamicOctree_StoreChildren(pb.oct, pb.index, node, 0)
        ELSE pb.oct,
        par, parent(pb.index))

DynamicOctree_SetSplit(o, par, node) ==
    DynamicOctree_SetSplitAt(DynamicOctree_push_branch(o), par, node)

RECURSIVE DynamicOctree_SetDescend(_, _, _, _, _)
\* set: `parent = self[parent].pointer() + branch.child(depth)`
DynamicOctree_SetStep(o, branch, par, depth, stack) ==
    DynamicOctree_SetDescend(o, branch,
                             pointer(Index(o, par)) + child(branch, depth),
                             depth + 1, Append(stack, par))

DynamicOctree_SetDescend(o, branch, par, depth, stack) ==
    IF depth >= branch.depth
    THEN [oct |-> o, par |-> par, stack |-> stack]
    ELSE DynamicOctree_SetStep(
             IF ~is_parent(Index(o, par))
             THEN DynamicOctree_SetSplit(o, par, Index(o, par))
             ELSE o,
             branch, par, depth, stack)

RECURSIVE DynamicOctree_SetCombine(_, _, _, _)
DynamicOctree_SetCombine(o, stack, i, node) ==
    IF i = 0 THEN o
    ELSE IF Combine(o, pointer(Index(o, stack[i])), node)
    THEN DynamicOctree_SetCombine(
             DynamicOctree_remove_branch(
                 DynamicOctree_index_mut(o, stack[i], node),
                 pointer(Index(o, stack[i]))),
             stack, i - 1, node)
    ELSE DynamicOctree_SetCombine(o, stack, i - 1, node)

\* set: `self[parent] = node` and the walk back up the stack
DynamicOctree_SetStore(down, node) ==
    DynamicOctree_SetCombine(
        DynamicOctree_index_mut(down.oct, down.par, node),
        down.stack, Len(down.stack), node)

DynamicOctree_set(o, branch, node) ==
    IF o.underflow THEN o
    ELSE DynamicOctree_SetStore(
             DynamicOctree_SetDescend(o, branch, root, 0, <<>>), node)

\* remove: the split of a solid leaf, after `self.push_branch()`
DynamicOctree_RemoveSplitAt(pb, par, node) ==
    DynamicOctree_index_mut(
        DynamicOctree_StoreChildren(pb.oct, pb.index, node, 0),
        par, parent(pb.index))

DynamicOctree_RemoveSplit(o, par, node) ==
    DynamicOctree_RemoveSplitAt(DynamicOctree_push_branch(o), par, node)

RECURSIVE DynamicOctree_RemoveDescend(_, _, _, _)
\* remove: `parent = new_branch + branch.child(depth)`
DynamicOctree_RemoveStep(o, branch, par, depth) ==
    DynamicOctree_RemoveDescend(
        o, branch, pointer(Index(o, par)) + child(branch, depth), depth + 1)

DynamicOctree_RemoveDescend(o, branch, par, depth) ==
    IF depth >= branch.depth
    THEN DynamicOctree_index_mut(o, par, empty)
    ELSE IF is_empty(Index(o, par)) THEN o
    ELSE IF is_solid(Index(o, par))
    THEN DynamicOctree_RemoveStep(
             DynamicOctree_RemoveSplit(o, par, Index(o, par)),
             branch, par, depth)
    ELSE IF ChildrenEmpty(o, pointer(Index(o, par)))
    THEN DynamicOctree_remove_branch(
             DynamicOctree_index_mut(o, par, empty), pointer(Index(o, par)))
    ELSE DynamicOctree_RemoveStep(o, branch, par, depth)

DynamicOctree_remove(o, branch) ==
    IF o.underflow THEN o
    ELSE DynamicOctree_RemoveDescend(o, branch, root, 0)

RECURSIVE DynamicOctree_SetAll(_, _, _, _)
\* the next branch of the loop, once the pool of the last set is known
DynamicOctree_SetNext(o, branches, k, node) ==
    IF len(o) >= 1
    THEN DynamicOctree_SetAll(o, branches, k + 1, node)
    ELSE o

DynamicOctree_SetAll(o, branches, k, node) ==
    IF k > Len(branches) THEN o
    ELSE DynamicOctree_SetNext(DynamicOctree_set(o, branches[k], node),
                               branches, k, node)

RECURSIVE DynamicOctree_RemoveAll(_, _, _)
DynamicOctree_RemoveNext(o, branches, k) ==
    IF len(o) >= 1
    THEN DynamicOctree_RemoveAll(o, branches, k + 1)
    ELSE o

DynamicOctree_RemoveAll(o, branches, k) ==
    IF k > Len(branches) THEN o
    ELSE DynamicOctree_RemoveNext(DynamicOctree_remove(o, branches[k]),
                                  branches, k)

RECURSIVE DynamicOctree_JoinLoop(_, _, _, _, _)
DynamicOctree_JoinLoop(o, branch, depth, leaves, k) ==
    IF k > Len(leaves) THEN o
    ELSE DynamicOctree_JoinLoop(
             DynamicOctree_SetAll(
                 o, HostBranches(branch, depth, leaves[k].branch), 1,
                 leaves[k].node),
             branch, depth, leaves, k + 1)

DynamicOctree_join(o, branch, depth, other) ==
    DynamicOctree_JoinLoop(o, branch, depth, iter_nodes(other), 1)

RECURSIVE DynamicOctree_DifferenceLoop(_, _, _, _, _)
DynamicOctree_DifferenceLoop(o, branch, depth, leaves, k) ==
    IF k > Len(leaves) THEN o
    ELSE DynamicOctree_DifferenceLoop(
             DynamicOctree_RemoveAll(
                 o, HostBranches(branch, depth, leaves[k].branch), 1),
             branch, depth, leaves, k + 1)

DynamicOctree_difference(o, branch, depth, other) ==
    DynamicOctree_DifferenceLoop(o, branch, depth, iter_nodes(other), 1)

(***************************************************************************)
(* The state machine: an Octree that starts as Octree::new() and is        *)
(* mutated by set, remove, join and difference, each call one step.        *)
(***************************************************************************)
\* the octree value held in the variables
Octree == [nodes |-> nodes, free_branches |-> free_branches]

Blocks(o) == (len(o) - 1) \div 8

\* the leaf nodes the operations are called with
Leaves == {empty, solid(1, 1, 1)}

\* The branches set and remove are called with: the root, and at every
\* depth up to MaxDepth the two cells <<lo, lo, lo>> and <<0, lo, lo>> with
\* lo = -2^(depth-1): the lowest cell of octant 0 and the lowest cell of
\* octant 1 (at depth 1, the two octants themselves).
CornerBranches(depth) ==
    LET lo == -Pow2(depth - 1) IN
    {Branch(lo, lo, lo, depth), Branch(0, lo, lo, depth)}

Branches == {BranchRoot} \cup UNION { CornerBranches(d) : d \in 1..MaxDepth }

\* The template octrees join and difference are called with: a solid root,
\* one solid octant, two octants whose leaves differ in SHADOW_BIT only, and
\* one solid cell at depth 2.
TemplateRoot == set(new, BranchRoot, solid(1, 1, 1))

TemplateOctant == set(new, Branch(-1, -1, -1, 1), solid(1, 1, 1))

TemplatePair ==
    set(set(new, Branch(-1, -1, -1, 1), solid(1, 1, 1)),
        Branch(0, -1, -1, 1), translucent(1, 1, 1))

TemplateDeep == set(new, Branch(0, 0, 0, 2), solid(1, 1, 1))

\* The calls of join and difference, <<branch, depth, other>>:
\*   a leaf at depth 0 onto the root (offset 0): the root itself;
\*   leaves at depth 1 onto the root (offset 1, nothing to shift):
\*     octants 0 and 1;
\*   a leaf at depth 0 onto a depth-1 branch (offset -1): the 8 branches
\*     <<-1,-1,-1>> + (x, y, z) at depth 1, which are the 8 octants;
\*   a leaf at depth 1 onto a depth-1 branch, one level down (offset 0):
\*     <<-2,-2,-2>> at depth 2;
\*   a leaf at depth 2 onto a depth-1 branch (offset 1, the target path
\*     shifted by one bit): <<-2,-2,-2>> at depth 2.
Calls ==
    { <<BranchRoot, 0, TemplateRoot>>,
      <<BranchRoot, 0, TemplatePair>>,
      <<Branch(-1, -1, -1, 1), 0, TemplateRoot>>,
      <<Branch(-1, -1, -1, 1), 1, TemplateOctant>>,
      <<Branch(-1, -1, -1, 1), 0, TemplateDeep>> }

\* the nodes of the texture that the model keeps
MirrorNodes == 1 + 8 * MaxDynamicBlocks

RECURSIVE Zeroed(_)
Zeroed(n) == IF n = 0 THEN <<>> ELSE Append(Zeroed(n - 1), empty)

\* the sizes of the window: that at start, and those it is resized to
WindowSizes == { <<800, 600>>, <<640, 480>>, <<1, 1>> }

taa_samples == 2

\* the value in place of a result while render_frame has not returned
NotReturned == [ok |-> FALSE, err |-> "not returned"]

\* Renderer::new, with the window at its size at start
Renderer_new ==
    [needs_configure |-> TRUE, surface_config |-> <<800, 600>>,
     taa_sample |-> 0]

\* the values in place of a ray and of a result while no ray has been cast
NoRay == [origin |-> <<0, 0, 0>>, direction |-> <<0, 0, 0>>]

NotCast == [some |-> FALSE, cast |-> FALSE]

\* the values in place of a generator and of a call while there was none
NoGenerator ==
    [dimensions |-> <<0, 0, 0>>, depth |-> 0, solids |-> {}, glass |-> {}]

NoCall == [op |-> "none"]

NoProbe == [op |-> "none"]

Init ==
    /\ nodes = new.nodes
    /\ free_branches = new.free_branches
    /\ cur_branch = BranchRoot
    /\ segments = <<>>
    /\ underflow = FALSE
    /\ drained = new.nodes
    /\ pc = "update"
    /\ outcome = "none"
    /\ mirror = Zeroed(MirrorNodes)
    /\ page_height = 1
    /\ page_count = 1
    /\ last_segment = [start |-> 0, len |-> 0]
    /\ writes = <<>>
    /\ needs_configure = Renderer_new.needs_configure
    /\ surface_config = Renderer_new.surface_config
    /\ taa_sample = Renderer_new.taa_sample
    /\ calls = <<>>
    /\ returned = NotReturned
    /\ taken = <<>>
    /\ ray = NoRay
    /\ hit = NotCast
    /\ generator = NoGenerator
    /\ csg = NoCall
    /\ probe = NoProbe
    /\ twin = new

SetAct ==
    \E b \in Branches, n \in Leaves :
        LET o == set(Octree, b, n) IN
        /\ Blocks(o) <= MaxBlocks
        /\ nodes' = o.nodes
        /\ free_branches' = o.free_branches
        /\ UNCHANGED aside_octree

RemoveAct ==
    \E b \in Branches :
        LET o == remove(Octree, b) IN
        /\ Blocks(o) <= MaxBlocks
        /\ nodes' = o.nodes
        /\ free_branches' = o.free_branches
        /\ UNCHANGED aside_octree

JoinAct ==
    \E c \in Calls :
        LET o == join(Octree, c[1], c[2], c[3]) IN
        /\ Blocks(o) <= MaxBlocks
        /\ nodes' = o.nodes
        /\ free_branches' = o.free_branches
        /\ UNCHANGED aside_octree

DifferenceAct ==
    \E c \in Calls :
        LET o == difference(Octree, c[1], c[2], c[3]) IN
        /\ Blocks(o) <= MaxBlocks
        /\ nodes' = o.nodes
        /\ free_branches' = o.free_branches
        /\ UNCHANGED aside_octree

Next == SetAct \/ RemoveAct \/ JoinAct \/ DifferenceAct

Spec == Init /\ [][Next]_vars

(***************************************************************************)
(* What the claims speak of: the tree reachable from the root.             *)
(***************************************************************************)
\* the start indices of the 8-slot blocks of the pool
BlockStarts(o) == { 8 * k + 1 : k \in 0..(Blocks(o) - 1) }

\* The parent graph below slot index is sound: every PARENT pointer q has
\* 0 < q and q + 8 <= len, and no PARENT below block q points to a block
\* in ancestors or to q itself.
RECURSIVE SoundBelow(_, _, _)
SoundBelow(o, index, ancestors) ==
    LET node == Index(o, index) IN
    IF ~is_parent(node) THEN TRUE
    ELSE LET q == pointer(node) IN
         IF ~(0 < q /\ q + 8 <= len(o)) \/ q \in ancestors THEN FALSE
         ELSE \A c \in 0..7 : SoundBelow(o, q + c, ancestors \cup {q})

\* the pointers of the PARENT nodes reachable from slot index, followed
\* through at most fuel levels
RECURSIVE PointersBelow(_, _, _)
PointersBelow(o, index, fuel) ==
    LET node == Index(o, index) IN
    IF fuel = 0 \/ ~is_parent(node) THEN {}
    ELSE LET q == pointer(node) IN
         IF ~(0 < q /\ q + 8 <= len(o)) THEN {q}
         ELSE {q} \cup UNION { PointersBelow(o, q + c, fuel - 1) : c \in 0..7 }

\* the blocks that are live: referenced from a PARENT reachable from the root
LivePointers(o) == PointersBelow(o, root, Blocks(o))

FreeSet(o) == { o.free_branches[k] : k \in 1..Len(o.free_branches) }

\* C1: every PARENT node reachable from the root has a pointer q with
\* 0 < q and q + 8 <= len, and the reachable parent graph is acyclic
C1_ParentPointersSound == SoundBelow(Octree, root, {})

\* C1 witness: a two-level tree one of whose blocks was taken from the
\* free list (it lies below a block that is not live)
C1_Witness ==
    /\ is_parent(Index(Octree, root))
    /\ \E c \in 0..7 : is_parent(Index(Octree, pointer(Index(Octree, root)) + c))
    /\ \E q \in LivePointers(Octree) :
           \E f \in BlockStarts(Octree) : f > q /\ f \notin LivePointers(Octree)

\* C2: the entries of free_branches are pairwise distinct, each entry f has
\* f >= 1 and f + 8 <= len, and none is the pointer of a reachable PARENT
C2_FreeListSound ==
    /\ \A j, k \in 1..Len(free_branches) :
           j # k => free_branches[j] # free_branches[k]
    /\ \A k \in 1..Len(free_branches) :
           /\ free_branches[k] >= 1
           /\ free_branches[k] + 8 <= Len(nodes)
    /\ FreeSet(Octree) \cap LivePointers(Octree) = {}

\* C2 witness: a block on the free list lies below a live block
C2_Witness ==
    \E f \in FreeSet(Octree) : \E q \in LivePointers(Octree) : f < q

(***************************************************************************)
(* Looking a cell up: the descent from the root that follows               *)
(* branch.child(depth) while the node is a PARENT.                         *)
(***************************************************************************)
\* the slot the descent for branch ends in, and its depth
RECURSIVE Descend(_, _, _, _)
Descend(o, branch, index, depth) ==
    IF depth >= branch.depth \/ ~is_parent(Index(o, index))
    THEN [index |-> index, depth |-> depth]
    ELSE Descend(o, branch,
                 pointer(Index(o, index)) + child(branch, depth), depth + 1)

\* the node the descent for branch ends in
Lookup(o, branch) == Index(o, Descend(o, branch, root, 0).index)

\* the cells of the grid of one depth
Cells(depth) ==
    LET lo == -Pow2(depth - 1)
        hi == Pow2(depth - 1) - 1
    IN  { Branch(x, y, z, depth) : x, y, z \in lo..hi }

\* cell lies inside branch: the cell's path, cut down to the depth of
\* branch, is the path of branch (everything lies inside the root)
Inside(cell, branch) ==
    \/ branch.depth = 0
    \/ /\ cell.depth >= branch.depth
       /\ \A i \in 1..3 :
              cell.path[i] \div Pow2(cell.depth - branch.depth) = branch.path[i]

\* the cells of the finest grid the trees of the model resolve
AllCells == Cells(MaxDepth)

\* The branches the claims about one call are checked for: those the
\* actions use, and cells whose coordinates differ per axis.
ProbeBranches ==
    Branches \cup { Branch(-1, 0, -1, 1) } \cup
    (IF MaxDepth >= 2
     THEN { Branch(1, -2, 0, 2), Branch(-1, 1, -2, 2) }
     ELSE {})

\* the leaves they are checked for: translucent differs from solid in
\* SHADOW_BIT only
ProbeLeaves == {empty, solid(1, 1, 1), translucent(1, 1, 1)}

RECURSIVE AncestorSlots(_, _, _, _)
AncestorSlots(o, branch, index, depth) ==
    IF depth >= branch.depth \/ ~is_parent(Index(o, index)) THEN {}
    ELSE {index} \cup
         AncestorSlots(o, branch,
                       pointer(Index(o, index)) + child(branch, depth), depth + 1)

\* the blocks on the path to branch
PathBlocks(o, branch) ==
    { pointer(Index(o, s)) : s \in AncestorSlots(o, branch, root, 0) }

\* C5: after set(b, n) no ancestor of b is a PARENT whose 8 children all
\* equal n; every block that was on the path to b when the leaf was written
\* either still is, or has been released (truncated off the pool or pushed
\* on the free list) and the path ends in the leaf n above it
C5_SetCollapsesAncestors ==
    \A b \in ProbeBranches, n \in ProbeLeaves :
        LET down == SetDescend(Octree, b, root, 0, <<>>)
            o2 == set(Octree, b, n)
        IN  /\ \A s \in AncestorSlots(o2, b, root, 0) :
                   ~Combine(o2, pointer(Index(o2, s)), n)
            /\ \A k \in 1..Len(down.stack) :
                   LET q == pointer(Index(down.oct, down.stack[k])) IN
                   \/ q \in PathBlocks(o2, b)
                   \/ /\ q + 8 > len(o2) \/ q \in FreeSet(o2)
                      /\ Lookup(o2, b) = n
                      /\ q \notin LivePointers(o2)

\* C5 witness: a set that collapses two levels, the block of the lower one
\* pushed on the free list
C5_Witness ==
    \E b \in ProbeBranches, n \in ProbeLeaves :
        LET o2 == set(Octree, b, n) IN
        /\ Descend(Octree, b, root, 0).depth = 2
        /\ Descend(o2, b, root, 0).depth = 0
        /\ Len(o2.free_branches) > Len(free_branches)

\* C6: when remove(b) returns, no ancestor of b is left as a PARENT of 8
\* EMPTY children
C6_RemoveCollapsesAncestors ==
    \A b \in ProbeBranches :
        LET o2 == remove(Octree, b) IN
        \A s \in AncestorSlots(o2, b, root, 0) :
            ~ChildrenEmpty(o2, pointer(Index(o2, s)))

\* the 8 slots of block q hold the same leaf
UniformLeaves(o, q) ==
    \A c \in 0..7 :
        ~is_parent(Index(o, q + c)) /\ Index(o, q + c) = Index(o, q)

\* C7: after each call, no PARENT reachable from the root has 8
\* bit-identical leaf children
C7_NoUniformParent ==
    \A q \in LivePointers(Octree) : ~UniformLeaves(Octree, q)

\* C8: every (b, n) that iter_nodes yields is a leaf that is not empty, and
\* the descent from the root by b.child(d), d = 0 .. b.depth - 1, reaches
\* the node n at depth b.depth
C8_IterNodesAgreesWithLookup ==
    LET leaves == iter_nodes(Octree) IN
    \A k \in 1..Len(leaves) :
        LET b == leaves[k].branch
            n == leaves[k].node
            end == Descend(Octree, b, root, 0)
        IN  /\ ~is_parent(n) /\ ~is_empty(n)
            /\ end.depth = b.depth
            /\ Index(Octree, end.index) = n

\* C8 witness: iter_nodes yields a leaf at depth 2 whose path has
\* coordinates of both signs, and a leaf at depth 1
C8_Witness ==
    LET leaves == iter_nodes(Octree) IN
    /\ \E k \in 1..Len(leaves) :
           /\ leaves[k].branch.depth = 2
           /\ \E i, j \in 1..3 :
                  leaves[k].branch.path[i] < 0 /\ leaves[k].branch.path[j] > 0
    /\ \E k \in 1..Len(leaves) : leaves[k].branch.depth = 1

\* the nodes reachable from the root, each with its index in the pool
ReachableNodes(o) ==
    { <<root, Index(o, root)>> } \cup
    { <<q + c, Index(o, q + c)>> : q \in LivePointers(o), c \in 0..7 }

\* C9 as stated: a second set(b, n) directly after set(b, n) leaves len,
\* every node reachable from the root and the set of free-list entries as
\* they were after the first call
C9_SetTwiceSamePool ==
    \A b \in ProbeBranches, n \in ProbeLeaves :
        LET o1 == set(Octree, b, n)
            o2 == set(o1, b, n)
        IN  /\ len(o2) = len(o1)
            /\ ReachableNodes(o2) = ReachableNodes(o1)
            /\ FreeSet(o2) = FreeSet(o1)

\* C9 amended: a second set(b, n) directly after set(b, n) leaves every
\* node reachable from the root as it was after the first call; len does
\* not grow and no entry is added to the free list
C9_SetTwiceSameTree ==
    \A b \in ProbeBranches, n \in ProbeLeaves :
        LET o1 == set(Octree, b, n)
            o2 == set(o1, b, n)
        IN  /\ len(o2) <= len(o1)
            /\ ReachableNodes(o2) = ReachableNodes(o1)
            /\ FreeSet(o2) \subseteq FreeSet(o1)

\* C9 witness: the first set collapses an ancestor of b and leaves a free
\* block at the end of the pool; the second one splits the leaf again,
\* takes that block, collapses and truncates the pool
C9_Witness ==
    \E b \in ProbeBranches, n \in ProbeLeaves :
        LET o1 == set(Octree, b, n)
            o2 == set(o1, b, n)
        IN  /\ Descend(o1, b, root, 0).depth < b.depth
            /\ len(o2) < len(o1)
            /\ FreeSet(o2) # FreeSet(o1)

\* every cell inside branch looks up as EMPTY
RegionEmpty(o, branch) ==
    \A cell \in AllCells : Inside(cell, branch) => is_empty(Lookup(o, cell))

\* C10: where the region of b is empty, set(b, n) with a solid n followed
\* by remove(b) leaves len and the nodes reachable from the root as they
\* were (a new octree: len 1 and an EMPTY root)
C10_SetRemoveRestores ==
    \A b \in ProbeBranches, n \in ProbeLeaves :
        (is_solid(n) /\ RegionEmpty(Octree, b)) =>
            LET o2 == remove(set(Octree, b, n), b) IN
            /\ len(o2) = len(Octree)
            /\ ReachableNodes(o2) = ReachableNodes(Octree)

\* C11: on a host that is empty (len 1, EMPTY root), join(branch, d,
\* template) followed by difference(branch, d, template) leaves the host
\* empty again: len == 1 and nodes[0] EMPTY
C11_JoinDifferenceRestoresEmpty ==
    (len(Octree) = 1 /\ is_empty(Index(Octree, root))) =>
        \A c \in Calls :
            LET joined == join(Octree, c[1], c[2], c[3])
                o2 == difference(joined, c[1], c[2], c[3])
            IN  len(o2) = 1 /\ is_empty(Index(o2, root))

(***************************************************************************)
(* Filling one octant: from Octree::new(), set is called with              *)
(* Node::solid(1, 1, 1) on depth-2 cells of one depth-1 octant, in any     *)
(* order.  The cells issued so far are those that look up as solid.        *)
(***************************************************************************)
FillNode == solid(1, 1, 1)

Octants == Cells(1)

\* the 8 children of a depth-1 octant
OctantCells(oct) == { cell \in Cells(2) : Inside(cell, oct) }

FillAct ==
    \E oct \in Octants :
        \E cell \in OctantCells(oct) :
            /\ \A c \in Cells(2) :
                   is_solid(Lookup(Octree, c)) => Inside(c, oct)
            /\ LET o == set(Octree, cell, FillNode) IN
               /\ nodes' = o.nodes
               /\ free_branches' = o.free_branches
               /\ UNCHANGED aside_octree
        /\ UNCHANGED aside_octree

SpecFill == Init /\ [][FillAct]_vars

\* set has been issued for all 8 children of the octant
Issued(oct) == \A cell \in OctantCells(oct) : Lookup(Octree, cell) = FillNode

\* C12 as stated: once set has been issued for all 8 children of one
\* depth-1 octant, len is 1 again and the root is SOLID(1, 1, 1)
C12_FilledOctantCollapsesRoot ==
    \A oct \in Octants :
        Issued(oct) => len(Octree) = 1 /\ Index(Octree, root) = FillNode

\* C12 amended: once set has been issued for all 8 children of one depth-1
\* octant, the octant is the leaf SOLID(1, 1, 1) and its block is gone: len
\* is 9, the free list is empty, the root is PARENT(1) and the other 7
\* octants are EMPTY
C12_FilledOctantCollapses ==
    \A oct \in Octants :
        Issued(oct) =>
            /\ len(Octree) = 9
            /\ free_branches = <<>>
            /\ Index(Octree, root) = parent(1)
            /\ Index(Octree, 1 + child(oct, 0)) = FillNode
            /\ \A other \in Octants \ {oct} : Lookup(Octree, other) = empty

\* C12 witness: all 8 children of the octant <<0, -1, 0>> have been issued
C12_Witness == Issued(Branch(0, -1, 0, 1))

(***************************************************************************)
(* Branch values: from Branch::root(), with_child is applied again and     *)
(* again, down to depth MaxDepth + 1.                                      *)
(***************************************************************************)
WithChildAct ==
    \E c \in 0..7 :
        /\ cur_branch.depth <= MaxDepth
        /\ cur_branch' = with_child(cur_branch, c)
        /\ UNCHANGED <<nodes, free_branches, segments, underflow, drained,
                       frames, texture, later>>

SpecBranch == Init /\ [][WithChildAct]_vars

\* the depth-1 paths in the order of the child index
RootChildPaths ==
    << <<-1, -1, -1>>, <<0, -1, -1>>, <<-1, 0, -1>>, <<0, 0, -1>>,
       <<-1, -1, 0>>, <<0, -1, 0>>, <<-1, 0, 0>>, <<0, 0, 0>> >>

\* C13: Branch::root().with_child(c), c = 0..7, are the depth-1 branches
\* with the paths (-1,-1,-1), (0,-1,-1), (-1,0,-1), (0,0,-1), (-1,-1,0),
\* (0,-1,0), (-1,0,0), (0,0,0) in that order, and child(0) of each is c
C13_RootChildren ==
    cur_branch = BranchRoot =>
        \A c \in 0..7 :
            LET b == with_child(cur_branch, c) IN
            /\ b.depth = 1
            /\ b.path = RootChildPaths[c + 1]
            /\ child(b, 0) = c

\* C13 witness: with_child(6) has been applied to the root
C13_Witness == cur_branch = Branch(-1, 0, 0, 1) /\ child(cur_branch, 0) = 6

(***************************************************************************)
(* The calls of push_segment on a segment list of its own                 *)
(***************************************************************************)
\* the segments push_segment is called with
PushedSegments ==
    { Segment(st, ln) :
        st \in {0, 5, 20, 35, 1034, 1035, 2048, 3082, 3083},
        ln \in {1, 10} }

PushSegmentAct ==
    \E segment \in PushedSegments :
        /\ segments' = push_segment(segments, segment)
        /\ UNCHANGED <<nodes, free_branches, cur_branch, underflow, drained,
                       frames, texture, later>>

SpecSegments == Init /\ [][PushSegmentAct]_vars

\* C14: after every push_segment the list is sorted by start, its segments
\* do not overlap, and two neighbours a, b have
\* a.start + a.len + BATCH_THRESHOLD < b.start
C14_SegmentsSeparated ==
    \A k \in 1..(Len(segments) - 1) :
        LET a == segments[k]
            b == segments[k + 1]
        IN  /\ a.start < b.start
            /\ Segment_end(a) <= b.start
            /\ a.start + a.len + BATCH_THRESHOLD < b.start

\* r covers e
Covers(r, e) == r.start <= e.start /\ Segment_end(e) <= Segment_end(r)

\* e and s overlap or lie within BATCH_THRESHOLD nodes of each other
Near(e, s) == e.start <= batch_end(s) /\ s.start <= batch_end(e)

\* C15: push_segment(s) leaves one segment that covers s and every segment
\* of the list that overlaps s or lies within BATCH_THRESHOLD of s; a
\* segment farther than that from the covering one stays an entry of its
\* own; and the list two pushes leave does not depend on their order
C15_PushSegmentMerges ==
    \A s \in PushedSegments :
        LET pushed == push_segment(segments, s) IN
        /\ \E k \in 1..Len(pushed) :
               /\ Covers(pushed[k], s)
               /\ \A j \in 1..Len(segments) :
                      /\ Near(segments[j], s) => Covers(pushed[k], segments[j])
                      /\ ~Near(segments[j], pushed[k]) =>
                             \E i \in 1..Len(pushed) : pushed[i] = segments[j]
        /\ \A t \in PushedSegments :
               push_segment(pushed, t)
                   = push_segment(push_segment(segments, t), s)

\* the list [(0,30), (2048,10)] of the claims C15 and C16
ListOfTest == << Segment(0, 30), Segment(2048, 10) >>

\* C16 as stated: with the list [(0,30), (2048,10)], push_segment((35,10))
\* leaves the single segment (0,2058)
C16_PushJoinsAll ==
    segments = ListOfTest =>
        push_segment(segments, Segment(35, 10)) = << Segment(0, 2058) >>

\* C16 amended: with the list [(0,30), (2048,10)], push_segment((35,10))
\* leaves [(0,45), (2048,10)]
C16_PushJoinsFirst ==
    segments = ListOfTest =>
        push_segment(segments, Segment(35, 10))
            = << Segment(0, 45), Segment(2048, 10) >>

\* C16 witness: the list is [(0,30), (2048,10)] and (35,10) is one of the
\* segments pushed onto it
C16_Witness ==
    /\ segments = ListOfTest
    /\ Segment(35, 10) \in PushedSegments
    /\ Len(push_segment(segments, Segment(35, 10))) = 2

(***************************************************************************)
(* A DynamicOctree that starts as DynamicOctree::empty() (World::new) and  *)
(* is mutated by set, remove, join and difference; its segments are        *)
(* drained by clear_segments / take_segments.                              *)
(***************************************************************************)
\* the DynamicOctree value held in the variables
DynamicOctree ==
    [nodes |-> nodes, free_branches |-> free_branches,
     segments |-> segments, underflow |-> underflow]

\* the branches set and remove are called with on the DynamicOctree:
\* octants 0 and 1 and the lowest cell of octant 1
DynamicBranches ==
    {Branch(-1, -1, -1, 1), Branch(0, -1, -1, 1), Branch(0, -2, -2, 2)}

\* the calls of join and difference on the DynamicOctree
DynamicCalls ==
    { <<BranchRoot, 0, TemplatePair>>,
      <<Branch(-1, -1, -1, 1), 1, TemplateOctant>> }

\* the value an edit leaves becomes the state, while the pool stays within
\* the bound
StoreDynamic(o) ==
    /\ Blocks(o) <= MaxDynamicBlocks
    /\ nodes' = o.nodes
    /\ free_branches' = o.free_branches
    /\ segments' = o.segments
    /\ underflow' = o.underflow

DynamicSetAct ==
    \E b \in DynamicBranches, n \in Leaves :
        /\ ~underflow
        /\ StoreDynamic(DynamicOctree_set(DynamicOctree, b, n))
        /\ UNCHANGED <<cur_branch, drained, frames, texture, later>>

DynamicRemoveAct ==
    \E b \in DynamicBranches :
        /\ ~underflow
        /\ StoreDynamic(DynamicOctree_remove(DynamicOctree, b))
        /\ UNCHANGED <<cur_branch, drained, frames, texture, later>>

DynamicJoinAct ==
    \E c \in DynamicCalls :
        /\ ~underflow
        /\ StoreDynamic(DynamicOctree_join(DynamicOctree, c[1], c[2], c[3]))
        /\ UNCHANGED <<cur_branch, drained, frames, texture, later>>

DynamicDifferenceAct ==
    \E c \in DynamicCalls :
        /\ ~underflow
        /\ StoreDynamic(DynamicOctree_difference(DynamicOctree, c[1], c[2], c[3]))
        /\ UNCHANGED <<cur_branch, drained, frames, texture, later>>

\* clear_segments / take_segments
ClearSegmentsAct ==
    /\ ~underflow
    /\ segments' = <<>>
    /\ drained' = nodes
    /\ UNCHANGED <<nodes, free_branches, cur_branch, underflow, frames,
                   texture, later>>

NextDynamic ==
    \/ DynamicSetAct
    \/ DynamicRemoveAct
    \/ DynamicJoinAct
    \/ DynamicDifferenceAct
    \/ ClearSegmentsAct

SpecDynamic == Init /\ [][NextDynamic]_vars

\* the indices of the pool whose node is not what it was at the last drain
Changed ==
    { i \in 0..(Len(nodes) - 1) : i >= Len(drained) \/ nodes[i + 1] # drained[i + 1] }

InSegment(i, s) == s.start <= i /\ i < Segment_end(s)

\* C17: between two drains, after any calls of set, remove, join and
\* difference, every index below len whose node differs from its value at
\* the previous drain lies inside a recorded segment.
C17_ChangedNodesRecorded ==
    ~underflow =>
        \A i \in Changed : \E k \in 1..Len(segments) : InSegment(i, segments[k])

\* C18: every recorded segment has len >= 1 and start + len <= octree.len(),
\* and the shrink of the trailing segment never underflows.
C18_SegmentsInsidePool ==
    /\ ~underflow
    /\ \A k \in 1..Len(segments) :
          segments[k].len >= 1 /\ Segment_end(segments[k]) <= Len(nodes)

(***************************************************************************)
(* Frames (app.rs, render/mod.rs, render/phase/octree.rs, world.rs).       *)
(* App::render is update, render_frame, post_update; pc is the call that   *)
(* comes next.  mirror is the octree texture, one node per texel: its      *)
(* first MirrorNodes nodes (the texture holds at least PAGE_SIZE = 4096    *)
(* nodes, so resize does nothing for the pools of the model); a new        *)
(* texture is zero, the bytes of Node::empty().                            *)
(***************************************************************************)
\* write_segment: the nodes of the segment go to the same place of the
\* texture
write_segment(m, o, s) ==
    SubSeq(m, 1, s.start) \o SubSeq(o.nodes, s.start + 1, Segment_end(s))
        \o SubSeq(m, Segment_end(s) + 1, Len(m))

\* write_dynamic: for &segment in octree.segments(), from the k-th on
RECURSIVE write_dynamic(_, _, _)
write_dynamic(m, o, k) ==
    IF k > Len(o.segments) THEN m
    ELSE write_dynamic(write_segment(m, o, o.segments[k]), o, k + 1)

\* assert!(segment.byte_end() <= octree.size()) holds for every segment
WriteDynamicAsserts(o) ==
    \A k \in 1..Len(o.segments) : Segment_end(o.segments[k]) <= len(o)

\* App::update: the camera moves; with a mouse button down and a hit,
\* octree.difference or octree.union
UpdateAct ==
    /\ pc = "update"
    /\ ~underflow
    /\ \/ UNCHANGED <<nodes, free_branches, segments, underflow>>
       \/ \E c \in DynamicCalls :
            StoreDynamic(DynamicOctree_join(DynamicOctree, c[1], c[2], c[3]))
       \/ \E c \in DynamicCalls :
            StoreDynamic(DynamicOctree_difference(DynamicOctree, c[1], c[2], c[3]))
    /\ pc' = "render_frame"
    /\ UNCHANGED <<cur_branch, drained, outcome, mirror, texture, later>>

\* Renderer::render_frame.  get_current_texture gives a frame (at once, or
\* after Outdated and a reconfiguration): the segments are written and the
\* draw is submitted ("drawn"); or Timeout: return Ok(()) at once
\* ("skipped"); or another error: Err ("failed"), and App::render returns
\* it without post_update.  An update that panicked never gets here.
RenderFrameAct ==
    /\ pc = "render_frame"
    /\ ~underflow
    /\ \/ /\ WriteDynamicAsserts(DynamicOctree)
          /\ mirror' = write_dynamic(mirror, DynamicOctree, 1)
          /\ outcome' = "drawn"
          /\ pc' = "post_update"
       \/ /\ outcome' = "skipped"
          /\ pc' = "post_update"
          /\ UNCHANGED mirror
       \/ /\ outcome' = "failed"
          /\ pc' = "update"
          /\ UNCHANGED mirror
    /\ UNCHANGED <<nodes, free_branches, cur_branch, segments, underflow, drained,
                   texture, later>>

\* App::post_update: World::post_update clears the segments
PostUpdateAct ==
    /\ pc = "post_update"
    /\ segments' = <<>>
    /\ drained' = nodes
    /\ pc' = "update"
    /\ UNCHANGED <<nodes, free_branches, cur_branch, underflow, outcome, mirror,
                   texture, later>>

NextFrame == UpdateAct \/ RenderFrameAct \/ PostUpdateAct

SpecFrame == Init /\ [][NextFrame]_vars

\* the mirror holds the current node pool
MirrorCurrent == \A i \in 1..Len(nodes) : mirror[i] = nodes[i]

\* C19: in every frame the changed node ranges are in the mirror when the
\* draw is submitted, and the segments are discarded only after they have
\* been written: after every frame, drawn or skipped, the mirror holds the
\* current node pool.
C19_MirrorCurrentAfterFrame ==
    /\ (pc = "post_update" /\ outcome = "drawn") => MirrorCurrent
    /\ (pc = "update" /\ outcome \in {"drawn", "skipped"}) => MirrorCurrent

(***************************************************************************)
(* DrawOctree (render/phase/octree.rs): the paged texture and the writes   *)
(* of a segment.  A DrawOctree value is a record                           *)
(* [page_height, page_count].  A write is a record of the phase that       *)
(* issued it, its destination origin <<x, y, z>> and extent                *)
(* <<width, height, depth>> in texels, the offset of its first source      *)
(* byte in octree.bytes() and the number of source bytes the extent takes. *)
(***************************************************************************)
PAGE_SIZE == 4096

\* mem::size_of::<Node>()
NodeBytes == 8

\* most pages the texture of the model grows to
MaxPageCount == 3

DrawOctree_new == [page_height |-> 1, page_count |-> 1]

\* the number of nodes that can be stored in the texture
DrawOctree_size(t) == PAGE_SIZE * t.page_height * t.page_count

page_size(t) == PAGE_SIZE * t.page_height

bytes_per_page(t) == page_size(t) * NodeBytes

bytes_per_row == PAGE_SIZE * NodeBytes

\* the loop adding a page in every round
RECURSIVE ResizeLoop_pages_only(_, _)
ResizeLoop_pages_only(t, size) ==
    IF DrawOctree_size(t) >= size THEN t
    ELSE ResizeLoop_pages_only([t EXCEPT !.page_count = @ + 1], size)

\* the loop adding a second page before it doubles the height
RECURSIVE ResizeLoop_page_first(_, _)
ResizeLoop_page_first(t, size) ==
    IF DrawOctree_size(t) >= size THEN t
    ELSE IF t.page_count < 2
    THEN ResizeLoop_page_first([t EXCEPT !.page_count = @ + 1], size)
    ELSE IF t.page_height < PAGE_SIZE
    THEN ResizeLoop_page_first([t EXCEPT !.page_height = @ * 2], size)
    ELSE ResizeLoop_page_first([t EXCEPT !.page_count = @ + 1], size)

\* while self.size() < size { .. }
RECURSIVE ResizeLoop(_, _)
ResizeLoop(t, size) ==
    IF DrawOctree_size(t) >= size THEN t
    ELSE IF t.page_height < PAGE_SIZE
    THEN ResizeLoop([t EXCEPT !.page_height = @ * 2], size)
    ELSE ResizeLoop([t EXCEPT !.page_count = @ + 1], size)

resize(t, size) == IF DrawOctree_size(t) >= size THEN t ELSE ResizeLoop(t, size)

Write(phase, origin, extent, src, bytes) ==
    [phase |-> phase, origin |-> origin, extent |-> extent,
     src |-> src, bytes |-> bytes]

\* a write_row with the byte offset as x
write_row_byte_x(phase, offset, row, page, src, n) ==
    Write(phase, <<offset, row, page>>, <<n \div NodeBytes, 1, 1>>, src, n)

\* write_row(queue, offset, row, page, bytes) with bytes = all[src .. src + n]
write_row(phase, offset, row, page, src, n) ==
    Write(phase, <<offset \div NodeBytes, row, page>>,
          <<n \div NodeBytes, 1, 1>>, src, n)

\* write_rows(queue, row, rows, page, bytes) with bytes = all[src ..]
write_rows(phase, row, rows, page, src) ==
    Write(phase, <<0, row, page>>, <<PAGE_SIZE, rows, 1>>, src,
          rows * bytes_per_row)

\* write_pages(queue, page, pages, bytes) with bytes = all[src ..]
write_pages(t, phase, page, pages, src) ==
    Write(phase, <<0, 0, page>>, <<PAGE_SIZE, t.page_height, pages>>, src,
          pages * bytes_per_page(t))

\* The five phases take and return the cursor
\* [offset, size, row, page] with the writes issued so far.
\* a write_first_row that steps to the next row without the page carry
write_first_row_no_carry(t, c) ==
    LET row_offset == c.offset % bytes_per_row IN
    IF row_offset > 0
    THEN LET row_size == Min(bytes_per_row - row_offset, c.size)
         IN  [offset |-> c.offset + row_size,
              size |-> c.size - row_size,
              row |-> c.row + 1,
              page |-> c.page,
              writes |-> Append(c.writes,
                                write_row("first row", row_offset, c.row,
                                          c.page, c.offset, row_size))]
    ELSE c

write_first_row(t, c) ==
    LET row_offset == c.offset % bytes_per_row IN
    IF row_offset > 0
    THEN LET row_size == Min(bytes_per_row - row_offset, c.size)
             next_row == c.row < t.page_height - 1
         IN  [offset |-> c.offset + row_size,
              size |-> c.size - row_size,
              row |-> IF next_row THEN c.row + 1 ELSE 0,
              page |-> IF next_row THEN c.page ELSE c.page + 1,
              writes |-> Append(c.writes,
                                write_row("first row", row_offset, c.row,
                                          c.page, c.offset, row_size))]
    ELSE c

\* a write_first_rows that leaves offset and size as they were
write_first_rows_no_advance(t, c) ==
    LET page_offset == c.row % t.page_height
        rows == Min(t.page_height - page_offset, c.size \div bytes_per_row)
    IN  IF page_offset > 0 /\ rows > 0
        THEN [c EXCEPT !.writes =
                 Append(@, write_rows("first rows", page_offset, rows,
                                      c.page, c.offset))]
        ELSE c

write_first_rows(t, c) ==
    LET page_offset == c.row % t.page_height
        rows == Min(t.page_height - page_offset, c.size \div bytes_per_row)
    IN  IF page_offset > 0 /\ rows > 0
        THEN LET written == rows * bytes_per_row
                 same_page == c.row + rows < t.page_height
             IN  [offset |-> c.offset + written,
                  size |-> c.size - written,
                  row |-> IF same_page THEN c.row + rows ELSE 0,
                  page |-> IF same_page THEN c.page ELSE c.page + 1,
                  writes |-> Append(c.writes,
                                    write_rows("first rows", page_offset, rows,
                                               c.page, c.offset))]
        ELSE c

write_full_pages(t, c) ==
    LET pages == c.size \div bytes_per_page(t) IN
    IF pages > 0
    THEN LET written == pages * bytes_per_page(t)
         IN  [offset |-> c.offset + written,
              size |-> c.size - written,
              row |-> c.row,
              page |-> c.page + pages,
              writes |-> Append(c.writes,
                                write_pages(t, "full pages", c.page, pages,
                                            c.offset))]
    ELSE c

write_last_rows(t, c) ==
    LET rows == c.size \div bytes_per_row IN
    IF rows > 0
    THEN LET written == rows * bytes_per_row
         IN  [offset |-> c.offset + written,
              size |-> c.size - written,
              row |-> c.row + rows,
              page |-> c.page,
              writes |-> Append(c.writes,
                                write_rows("last rows", 0, rows, c.page,
                                           c.offset))]
    ELSE c

write_last_row(t, c) ==
    IF c.size > 0
    THEN [c EXCEPT !.writes =
             Append(@, write_row("last row", 0, c.row, c.page, c.offset,
                                 c.size))]
    ELSE c

byte_start(s) == s.start * NodeBytes

byte_len(s) == s.len * NodeBytes

byte_end(s) == Segment_end(s) * NodeBytes

\* write_segment: the writes it issues, in the order it issues them
write_segment_writes(t, s) ==
    LET row == byte_start(s) \div bytes_per_row
        c0 == [offset |-> byte_start(s), size |-> byte_len(s),
               row |-> row % t.page_height, page |-> row \div t.page_height,
               writes |-> <<>>]
    IN  write_last_row(t,
            write_last_rows(t,
                write_full_pages(t,
                    write_first_rows(t,
                        write_first_row(t, c0))))).writes

\* the texture value held in the variables
DrawOctree == [page_height |-> page_height, page_count |-> page_count]

\* the sizes resize is called with: up to one row, and one node more than
\* 2^k rows and (with PAGE_SIZE rows a page) than k pages
ResizeSizes ==
    {1, PAGE_SIZE}
        \cup { PAGE_SIZE * Pow2(k) + 1 : k \in 0..11 }
        \cup { PAGE_SIZE * PAGE_SIZE * k + 1 : k \in 1..(MaxPageCount - 1) }

ResizeAct ==
    \E size \in ResizeSizes :
        LET t == resize(DrawOctree, size) IN
        /\ page_height' = t.page_height
        /\ page_count' = t.page_count
        /\ UNCHANGED <<nodes, free_branches, cur_branch, segments, underflow,
                       drained, frames, last_segment, writes, later>>

\* The segments write_segment is called with, inside the texture: start
\* and length are each a number of pages, plus a number of rows, plus a
\* number of nodes.
RowCounts(t) == {0, 1, t.page_height - 1} \cap 0..(t.page_height - 1)

NodeCounts == {0, 1, PAGE_SIZE - 1}

WrittenSegments(t) ==
    { s \in { Segment(p1 * page_size(t) + r1 * PAGE_SIZE + n1,
                      p2 * page_size(t) + r2 * PAGE_SIZE + n2) :
                p1 \in {0, 1}, r1 \in RowCounts(t), n1 \in NodeCounts,
                p2 \in {0, 1}, r2 \in RowCounts(t), n2 \in NodeCounts } :
        Segment_end(s) <= DrawOctree_size(t) }

WriteSegmentAct ==
    \E s \in WrittenSegments(DrawOctree) :
        /\ last_segment' = s
        /\ writes' = write_segment_writes(DrawOctree, s)
        /\ UNCHANGED <<nodes, free_branches, cur_branch, segments, underflow,
                       drained, frames, page_height, page_count,
                       later>>

NextWrite == ResizeAct \/ WriteSegmentAct

SpecWrite == Init /\ [][NextWrite]_vars

PhaseOrder ==
    << "first row", "first rows", "full pages", "last rows", "last row" >>

PhaseIndex(phase) == CHOOSE k \in 1..5 : PhaseOrder[k] = phase

\* the writes are of distinct phases in the order of the phases, and their
\* source ranges follow one another from o to o + s
CoversInOrder(ws, o, s) ==
    /\ \A k \in 1..(Len(ws) - 1) :
          /\ PhaseIndex(ws[k].phase) < PhaseIndex(ws[k + 1].phase)
          /\ ws[k].src + ws[k].bytes = ws[k + 1].src
    /\ \A k \in 1..Len(ws) : ws[k].bytes >= 0
    /\ IF ws = <<>> THEN s = 0
       ELSE ws[1].src = o /\ ws[Len(ws)].src + ws[Len(ws)].bytes = o + s

\* C20: for every page_height and every segment whose bytes [o, o + s) lie
\* inside the texture, write_segment issues at most one write in each of
\* its five phases, and the source ranges of the writes are consecutive,
\* disjoint and cover exactly [o, o + s).
C20_WritesCoverSegment ==
    /\ CoversInOrder(writes, byte_start(last_segment), byte_len(last_segment))
    /\ \A s \in WrittenSegments(DrawOctree) :
          CoversInOrder(write_segment_writes(DrawOctree, s),
                        byte_start(s), byte_len(s))

\* C20 witness: a segment has been written in all five phases
C20_Witness ==
    /\ Len(writes) = 5
    /\ page_height > 1
    /\ writes = write_segment_writes(DrawOctree, last_segment)

(***************************************************************************)
(* The cursor of write_segment between its phases                          *)
(***************************************************************************)
\* let mut offset, size, row, page at the head of write_segment
start_cursor(t, s) ==
    [offset |-> byte_start(s), size |-> byte_len(s),
     row |-> (byte_start(s) \div bytes_per_row) % t.page_height,
     page |-> (byte_start(s) \div bytes_per_row) \div t.page_height,
     writes |-> <<>>]

\* the k-th call in the body of write_segment
phase_call(t, c, k) ==
    CASE k = 1 -> write_first_row(t, c)
      [] k = 2 -> write_first_rows(t, c)
      [] k = 3 -> write_full_pages(t, c)
      [] k = 4 -> write_last_rows(t, c)
      [] k = 5 -> write_last_row(t, c)

\* the cursor after the first k calls
RECURSIVE cursor_after(_, _, _)
cursor_after(t, s, k) ==
    IF k = 0 THEN start_cursor(t, s)
    ELSE phase_call(t, cursor_after(t, s, k - 1), k)

\* the texel of the byte at offset o of the pool
TexelOfByte(t, o) ==
    << (o % bytes_per_row) \div NodeBytes,
       (o \div bytes_per_row) % t.page_height,
       o \div bytes_per_page(t) >>

OriginsAtSource(t, ws) ==
    \A k \in 1..Len(ws) : ws[k].origin = TexelOfByte(t, ws[k].src)

\* the call wrote, and its write ends with the last byte of a page
FinishedPage(t, before, after) ==
    /\ Len(after.writes) = Len(before.writes) + 1
    /\ after.offset % bytes_per_page(t) = 0

CursorCarries(t, s) ==
    \A k \in 1..5 :
        FinishedPage(t, cursor_after(t, s, k - 1), cursor_after(t, s, k))
            => /\ cursor_after(t, s, k).row = 0
               /\ cursor_after(t, s, k).page =
                      (cursor_after(t, s, k).offset - 1) \div bytes_per_page(t) + 1

\* C21: every write of write_segment has as destination origin the texel
\* of its first source byte o, (x, row, page) = ((o mod bytes_per_row) / 8,
\* (o / bytes_per_row) mod page_height, o / bytes_per_page); and a phase
\* whose write ends with the last row of a page leaves the cursor at row 0
\* of the page after it.
C21_WriteOrigins ==
    /\ OriginsAtSource(DrawOctree, writes)
    /\ \A s \in WrittenSegments(DrawOctree) :
          /\ cursor_after(DrawOctree, s, 5).writes
                 = write_segment_writes(DrawOctree, s)
          /\ OriginsAtSource(DrawOctree, write_segment_writes(DrawOctree, s))
          /\ CursorCarries(DrawOctree, s)

\* C21 witness: the first row written was the last row of its page and
\* ended it, and the next write starts at row 0 of the following page
C21_Witness ==
    /\ page_height > 1
    /\ Len(writes) >= 2
    /\ writes = write_segment_writes(DrawOctree, last_segment)
    /\ writes[1].phase = "first row"
    /\ writes[1].origin[2] = page_height - 1
    /\ writes[2].origin = <<0, 0, writes[1].origin[3] + 1>>

(***************************************************************************)
(* resize                                                                  *)
(***************************************************************************)
PageHeights == { Pow2(k) : k \in 0..12 }

\* r is what resize(size) makes of the texture t
ResizedRight(t, size, r) ==
    /\ DrawOctree_size(r) >= size
    /\ r.page_height >= t.page_height
    /\ r.page_count >= t.page_count
    /\ r.page_height \in PageHeights
    /\ r.page_count > t.page_count => r.page_height = PAGE_SIZE
    /\ DrawOctree_size(t) >= size => r = t

\* C22: after resize(size) the capacity PAGE_SIZE * page_height *
\* page_count is at least size; neither page_height nor page_count
\* decreases; page_height is one of 1, 2, 4, .., PAGE_SIZE; a page is added
\* only with page_height at PAGE_SIZE; and a texture that already holds
\* size nodes is left as it is.
C22_ResizeGrows ==
    /\ page_height \in PageHeights
    /\ page_count > 1 => page_height = PAGE_SIZE
    /\ \A size \in ResizeSizes :
          ResizedRight(DrawOctree, size, resize(DrawOctree, size))

\* C22 witness: resize has doubled the page height up to PAGE_SIZE and then
\* added a page
C22_Witness == page_height = PAGE_SIZE /\ page_count = 2

(***************************************************************************)
(* The texel of a node: where the writes put it, and where the shader      *)
(* looks for it                                                            *)
(***************************************************************************)
\* queue.write_texture: the texel that receives the d-th node of the data,
\* with rows of bytes_per_row bytes and images of extent.height rows
TexelInWrite(w, d) ==
    << w.origin[1] + (d % PAGE_SIZE),
       w.origin[2] + ((d \div PAGE_SIZE) % w.extent[2]),
       w.origin[3] + (d \div (PAGE_SIZE * w.extent[2])) >>

\* the texel to which the write w puts node p of the pool
WrittenTexel(w, p) == TexelInWrite(w, p - (w.src \div NodeBytes))

\* the shader's decoding of a node index:
\* (p & 0xFFF, (p >> 12) & 0xFFF, p >> 24)
ShaderTexel(p) ==
    << p % Pow2(12), (p \div Pow2(12)) % Pow2(12), p \div Pow2(24) >>

\* nodes of the write w: its first and last, and those one row and one
\* page after the first, with their predecessors
NodesOf(t, w) ==
    { p \in { (w.src \div NodeBytes) + d :
                d \in {0, 1, PAGE_SIZE - 1, PAGE_SIZE, page_size(t) - 1,
                       page_size(t), (w.bytes \div NodeBytes) - 1} } :
        /\ p >= w.src \div NodeBytes
        /\ p < (w.src + w.bytes) \div NodeBytes }

InsideTexture(t, texel) ==
    /\ texel[1] < PAGE_SIZE
    /\ texel[2] < t.page_height
    /\ texel[3] < t.page_count

DecodedWhereWritten(t, ws) ==
    \A k \in 1..Len(ws) : \A p \in NodesOf(t, ws[k]) :
        /\ WrittenTexel(ws[k], p) = ShaderTexel(p)
        /\ InsideTexture(t, ShaderTexel(p))

\* the width of a node index
IndexBits == 32

\* C23: for every page_height and page_count that resize produces and
\* every node index p below the capacity of the texture, the texel to
\* which write_segment writes node p is the texel the shader decodes from
\* p, (p & 0xFFF, (p >> 12) & 0xFFF, p >> 24), and lies inside the
\* texture; the pages of 2^24 nodes that 32-bit indices reach are 256.
C23_ShaderDecodesWritten ==
    /\ DecodedWhereWritten(DrawOctree, writes)
    /\ \A s \in WrittenSegments(DrawOctree) :
          DecodedWhereWritten(DrawOctree, write_segment_writes(DrawOctree, s))
    /\ Pow2(IndexBits - 24) = 256
    /\ page_count <= Pow2(IndexBits - 24)

\* C23 witness: a segment has been written to rows of the third page of a
\* texture of 4096 rows to the page, by rows and by a part of a row
C23_Witness ==
    /\ page_height = PAGE_SIZE
    /\ page_count = 3
    /\ Len(writes) >= 2
    /\ writes[Len(writes)].phase = "last row"
    /\ writes[Len(writes)].origin[3] = 2
    /\ writes[Len(writes)].origin[2] > 0

(***************************************************************************)
(* Renderer::render_frame (render/mod.rs) and the surface.  A Renderer     *)
(* value is a record [needs_configure, surface_config, taa_sample]; a      *)
(* run of render_frame is a record of the Renderer it leaves, the calls    *)
(* it made on the surface and the queue, in order, and what it returned.   *)
(***************************************************************************)
SurfaceErrors == {"Timeout", "Outdated", "Lost", "OutOfMemory"}

\* what surface.get_current_texture() returns: a frame, or an error
Acquisitions == {"Ok"} \cup SurfaceErrors

Call(name, result) == [name |-> name, result |-> result]

Run(r, log, ret) == [renderer |-> r, calls |-> log, returned |-> ret]

Ok == [ok |-> TRUE, err |-> "none"]

Err(e) == [ok |-> FALSE, err |-> e]

\* Renderer::resize
Renderer_resize(r, size) ==
    [r EXCEPT !.surface_config = size, !.needs_configure = TRUE]

\* if self.needs_configure { self.configure() }
Renderer_configure(run) ==
    IF run.renderer.needs_configure
    THEN Run([run.renderer EXCEPT !.needs_configure = FALSE],
             Append(run.calls,
                    Call("surface.configure", run.renderer.surface_config)),
             run.returned)
    ELSE run

\* Renderer::main_pass
main_pass(r) == [r EXCEPT !.taa_sample = (@ + 1) % taa_samples]

\* render_frame once it holds a frame: main_pass, queue.submit,
\* frame.present, Ok(())
DrawFrame(run) ==
    Run(main_pass(run.renderer),
        run.calls \o << Call("main_pass", "Ok"), Call("queue.submit", "Ok"),
                        Call("frame.present", "Ok") >>,
        Ok)

\* a render_frame that takes a Timeout of the second acquisition as that
\* of the first
RetryAcquire_skip(run, second) ==
    IF second = "Ok"
    THEN DrawFrame([run EXCEPT !.calls =
                       Append(@, Call("surface.get_current_texture", second))])
    ELSE Run(run.renderer,
             Append(run.calls, Call("surface.get_current_texture", second)),
             IF second = "Timeout" THEN Ok ELSE Err(second))

\* self.surface.get_current_texture()? in the arm of Outdated
RetryAcquire(run, second) ==
    IF second = "Ok"
    THEN DrawFrame([run EXCEPT !.calls =
                       Append(@, Call("surface.get_current_texture", second))])
    ELSE Run(run.renderer,
             Append(run.calls, Call("surface.get_current_texture", second)),
             Err(second))

\* match self.surface.get_current_texture() { .. }
Acquire(run, first, second) ==
    IF first = "Ok" THEN DrawFrame(run)
    ELSE IF first = "Outdated"
    THEN RetryAcquire(
             [run EXCEPT !.calls =
                 Append(@, Call("surface.configure",
                                run.renderer.surface_config))],
             second)
    ELSE IF first = "Timeout" THEN [run EXCEPT !.returned = Ok]
    ELSE [run EXCEPT !.returned = Err(first)]

\* the run up to the first acquisition
FirstAcquire(run, first, second) ==
    Acquire([run EXCEPT !.calls =
                Append(@, Call("surface.get_current_texture", first))],
            first, second)

\* render_frame, with the results of the acquisitions it may make
render_frame(r, first, second) ==
    FirstAcquire(Renderer_configure(Run(r, <<>>, NotReturned)), first, second)

\* the Renderer held in the variables
Renderer ==
    [needs_configure |-> needs_configure, surface_config |-> surface_config,
     taa_sample |-> taa_sample]

StoreRun(run) ==
    /\ needs_configure' = run.renderer.needs_configure
    /\ surface_config' = run.renderer.surface_config
    /\ taa_sample' = run.renderer.taa_sample
    /\ calls' = run.calls
    /\ returned' = run.returned

RendererResizeAct ==
    \E size \in WindowSizes :
        /\ StoreRun(Run(Renderer_resize(Renderer, size), calls, returned))
        /\ UNCHANGED <<nodes, free_branches, cur_branch, segments, underflow,
                       drained, frames, texture, taken, caster, built, probes>>

RenderSurfaceAct ==
    \E first \in Acquisitions, second \in Acquisitions :
        /\ StoreRun(render_frame(Renderer, first, second))
        /\ UNCHANGED <<nodes, free_branches, cur_branch, segments, underflow,
                       drained, frames, texture, taken, caster, built, probes>>

NextSurface == RendererResizeAct \/ RenderSurfaceAct

SpecSurface == Init /\ [][NextSurface]_vars

IsAcquisition(c) == c.name = "surface.get_current_texture"

\* the acquisitions of the last render_frame, in order
Acquired == SelectSeq(calls, IsAcquisition)

\* the last render_frame rendered, submitted or presented something
Rendered ==
    \E k \in 1..Len(calls) :
        calls[k].name \in {"main_pass", "queue.submit", "frame.present"}

\* the calls of surface.configure after the first acquisition
Reconfigured ==
    { k \in 1..Len(calls) :
        /\ calls[k].name = "surface.configure"
        /\ \E j \in 1..(k - 1) : IsAcquisition(calls[j]) }

\* C24: render_frame returns Ok without rendering or submitting anything
\* when the acquisition times out; when it is Outdated it reconfigures the
\* surface and acquires once more, exactly once, and an error of that
\* second acquisition is returned with nothing more tried; any other error
\* of the acquisition is returned to the caller.
C24_SurfaceAcquisition ==
    returned # NotReturned =>
        /\ Len(Acquired) \in 1..2
        /\ Acquired[1].result = "Timeout" =>
              returned = Ok /\ ~Rendered /\ Len(Acquired) = 1
        /\ Acquired[1].result = "Outdated" =>
              /\ Len(Acquired) = 2
              /\ Cardinality(Reconfigured) = 1
              /\ Acquired[2].result # "Ok" =>
                    returned = Err(Acquired[2].result) /\ ~Rendered
              /\ Acquired[2].result = "Ok" => returned = Ok /\ Rendered
        /\ Acquired[1].result \in {"Lost", "OutOfMemory"} =>
              /\ returned = Err(Acquired[1].result)
              /\ ~Rendered
              /\ Len(Acquired) = 1
        /\ Acquired[1].result # "Outdated" => Reconfigured = {}
        /\ Acquired[1].result = "Ok" => returned = Ok /\ Rendered

\* C24 witness: the surface was Outdated and the second acquisition timed
\* out: the frame failed with that error
C24_Witness ==
    /\ Len(Acquired) = 2
    /\ Acquired[1].result = "Outdated"
    /\ Acquired[2].result = "Timeout"
    /\ returned = Err("Timeout")

(***************************************************************************)
(* take_segments and clear_segments (dynamic.rs)                           *)
(***************************************************************************)
\* a take_segments that hands out a copy and keeps the list
take_segments_copy(o) == [oct |-> o, taken |-> o.segments]

\* mem::take(&mut self.segments): the list is returned and an empty one is
\* left in its place
take_segments(o) ==
    [oct |-> [o EXCEPT !.segments = <<>>], taken |-> o.segments]

\* self.segments.clear()
clear_segments(o) == [o EXCEPT !.segments = <<>>]

StoreTaken(t) ==
    /\ nodes' = t.oct.nodes
    /\ free_branches' = t.oct.free_branches
    /\ segments' = t.oct.segments
    /\ underflow' = t.oct.underflow
    /\ taken' = t.taken

TakeSegmentsAct ==
    /\ ~underflow
    /\ StoreTaken(take_segments(DynamicOctree))
    /\ drained' = nodes
    /\ UNCHANGED <<cur_branch, frames, texture, renderer, caster, built,
                   probes>>

NextTake ==
    \/ DynamicSetAct
    \/ DynamicRemoveAct
    \/ TakeSegmentsAct
    \/ ClearSegmentsAct

SpecTake == Init /\ [][NextTake]_vars

\* t is what take_segments returns and leaves of the DynamicOctree o
TakenAll(o, t) ==
    /\ t.taken = o.segments
    /\ t.oct.segments = <<>>
    /\ t.oct.nodes = o.nodes
    /\ t.oct.free_branches = o.free_branches

\* c is what clear_segments leaves of the DynamicOctree o
ClearedAll(o, c) ==
    /\ c.segments = <<>>
    /\ c.nodes = o.nodes
    /\ c.free_branches = o.free_branches

\* C25: take_segments returns the segment list as it was and leaves it
\* empty, clear_segments leaves it empty, and neither changes nodes or
\* free_branches.
C25_TakeAndClear ==
    /\ [](/\ TakenAll(DynamicOctree, take_segments(DynamicOctree))
          /\ ClearedAll(DynamicOctree, clear_segments(DynamicOctree)))
    /\ [][TakeSegmentsAct =>
            /\ taken' = segments
            /\ segments' = <<>>
            /\ nodes' = nodes
            /\ free_branches' = free_branches]_vars
    /\ [][ClearSegmentsAct =>
            /\ segments' = <<>>
            /\ nodes' = nodes
            /\ free_branches' = free_branches]_vars

\* C25 witness: the segments of an edit that split the root have been
\* taken, and the list is empty
C25_Witness ==
    /\ taken # <<>>
    /\ segments = <<>>
    /\ Len(nodes) > 1
    /\ drained = nodes

(***************************************************************************)
(* Raycaster (raycast.rs).  Coordinates are f32 in the code; the model     *)
(* keeps to values on which the arithmetic of the code is exact: a         *)
(* coordinate is an integer number of steps of 1 / One, a direction has    *)
(* one non-zero component, and the steps are fine enough for the centres   *)
(* of the cells of depth MaxDepth.  A quotient is a record                  *)
(* [kind, v]: a number, an infinity with v its sign, or NaN.               *)
(***************************************************************************)
\* the integer that stands for 1.0
One == Pow2(MaxDepth + 1)

Num(v) == [kind |-> "num", v |-> v]

PosInf == [kind |-> "inf", v |-> 1]

NegInf == [kind |-> "inf", v |-> -1]

NaN == [kind |-> "nan", v |-> 0]

Abs(x) == IF x >= 0 THEN x ELSE -x

\* f32::signum of a value that is not NaN; the zeros of the model are +0.0
signum(x) == IF x >= 0 THEN 1 ELSE -1

\* a / d in f32, for a finite a and a d for which the quotient is exact
fdiv(a, d) ==
    IF d = 0
    THEN IF a = 0 THEN NaN ELSE IF a > 0 THEN PosInf ELSE NegInf
    ELSE Num((a * signum(d)) \div Abs(d))

\* a < b in f32: false when either is NaN
flt(a, b) ==
    /\ a.kind # "nan"
    /\ b.kind # "nan"
    /\ IF a.kind = "inf" THEN a.v < 0 /\ b # NegInf
       ELSE IF b.kind = "inf" THEN b.v > 0
       ELSE a.v < b.v

\* a == b in f32: false when either is NaN
feq(a, b) == a.kind # "nan" /\ b.kind # "nan" /\ a = b

\* f32::min and f32::max: a NaN argument is passed over
fmin(a, b) ==
    IF a.kind = "nan" THEN b
    ELSE IF b.kind = "nan" THEN a
    ELSE IF flt(b, a) THEN b ELSE a

fmax(a, b) ==
    IF a.kind = "nan" THEN b
    ELSE IF b.kind = "nan" THEN a
    ELSE IF flt(a, b) THEN b ELSE a

\* Vec3::min_element, Vec3::max_element
min_element(t) == fmin(t[1], fmin(t[2], t[3]))

max_element(t) == fmax(t[1], fmax(t[2], t[3]))

Ray(origin, direction) == [origin |-> origin, direction |-> direction]

None == [some |-> FALSE]

in_bounds(point) == \A i \in 1..3 : Abs(point[i]) <= One

\* tmin.min(tmax).max_element()
slab_near(origin, direction) ==
    max_element([i \in 1..3 |->
        fmin(fdiv(-One - origin[i], direction[i]),
             fdiv(One - origin[i], direction[i]))])

\* tmin.max(tmax).min_element()
slab_far(origin, direction) ==
    min_element([i \in 1..3 |->
        fmax(fdiv(-One - origin[i], direction[i]),
             fdiv(One - origin[i], direction[i]))])

\* origin + direction * near
project_to(origin, direction, near) ==
    [some |-> TRUE,
     point |-> << origin[1] + direction[1] * near.v,
                  origin[2] + direction[2] * near.v,
                  origin[3] + direction[3] * near.v >>]

project(origin, direction) ==
    IF in_bounds(origin) THEN [some |-> TRUE, point |-> origin]
    ELSE IF \/ flt(slab_far(origin, direction), slab_near(origin, direction))
            \/ flt(slab_far(origin, direction), Num(0))
    THEN None
    ELSE project_to(origin, direction, slab_near(origin, direction))

\* (path + 0.5) / 2^depth - 1.0, one component
split_at(p, depth) == ((2 * p + 1) * One) \div Pow2(depth + 1) - One

split(path, depth) ==
    << split_at(path[1], depth), split_at(path[2], depth),
       split_at(path[3], depth) >>

select_initial_child(point) ==
      (IF point[1] >= 0 THEN 1 ELSE 0)
    + (IF point[2] >= 0 THEN 2 ELSE 0)
    + (IF point[3] >= 0 THEN 4 ELSE 0)

select_child(point, path, depth) ==
      (IF point[1] >= split_at(path[1], depth) THEN 1 ELSE 0)
    + (IF point[2] >= split_at(path[2], depth) THEN 2 ELSE 0)
    + (IF point[3] >= split_at(path[3], depth) THEN 4 ELSE 0)

\* (path << 1) with the bits of child
add_child(path, c) ==
    << 2 * path[1] + (c % 2), 2 * path[2] + ((c \div 2) % 2),
       2 * path[3] + ((c \div 4) % 2) >>

\* path & (1 << depth) != 0 for an i32 in two's complement
BitOf(p, depth) == (p \div Pow2(depth)) % 2 = 1

extract_child(path, depth) ==
      (IF BitOf(path[1], depth) THEN 1 ELSE 0)
    + (IF BitOf(path[2], depth) THEN 2 ELSE 0)
    + (IF BitOf(path[3], depth) THEN 4 ELSE 0)

\* a ^ b for two i32 that are not negative
RECURSIVE BitXor(_, _)
BitXor(a, b) ==
    IF a = 0 THEN b
    ELSE IF b = 0 THEN a
    ELSE ((a + b) % 2) + 2 * BitXor(a \div 2, b \div 2)

\* a | b for two i32 that are not negative
RECURSIVE BitOr(_, _)
BitOr(a, b) ==
    IF a = 0 THEN b
    ELSE IF b = 0 THEN a
    ELSE (IF a % 2 = 1 \/ b % 2 = 1 THEN 1 ELSE 0)
         + 2 * BitOr(a \div 2, b \div 2)

\* a ^ b for i32 in two's complement; -1 stands for any negative result
xor_i32(a, b) ==
    IF a < 0 /\ b < 0 THEN BitXor(-a - 1, -b - 1)
    ELSE IF a < 0 \/ b < 0 THEN -1
    ELSE BitXor(a, b)

\* a | b for i32 in two's complement; -1 stands for any negative result
or_i32(a, b) == IF a < 0 \/ b < 0 THEN -1 ELSE BitOr(a, b)

\* the position of the highest bit of a positive i32
RECURSIVE HighBit(_)
HighBit(n) == IF n <= 1 THEN 0 ELSE 1 + HighBit(n \div 2)

\* 31 - diff.leading_zeros() of the bits in which two paths differ; a
\* negative diff has its sign bit set.  The paths differ: one component of
\* path has moved by dir, which is 1 or -1.
flip_of(path, old_path) ==
    LET diff == or_i32(xor_i32(path[1], old_path[1]),
                       or_i32(xor_i32(path[2], old_path[2]),
                              xor_i32(path[3], old_path[3])))
    IN  IF diff < 0 THEN 31 ELSE HighBit(diff)

\* [0; 32]
RECURSIVE Zeros(_)
Zeros(n) == IF n = 0 THEN <<>> ELSE Append(Zeros(n - 1), 0)

\* stack[i] = parent
StackPut(stack, i, p) ==
    SubSeq(stack, 1, i) \o <<p>> \o SubSeq(stack, i + 2, Len(stack))

\* Some(OctreeHit { .. }); point stands for point + nudge * 0.0001
OctreeHit(index, branch, point, nudge, normal) ==
    [some |-> TRUE, index |-> index, branch |-> branch, distance |-> 0,
     point |-> point, nudge |-> nudge, normal |-> normal]

\* the hit of the loop without the half taken off the path
loop_hit_no_half(st, direction) ==
    OctreeHit(st.parent + st.child,
              [path |-> st.path, depth |-> st.depth + 1],
              st.point, direction, st.normal)

\* if node.is_solid(): the hit of the loop
loop_hit(st, direction) ==
    OctreeHit(st.parent + st.child,
              [path |-> << st.path[1] - Pow2(st.depth),
                           st.path[2] - Pow2(st.depth),
                           st.path[3] - Pow2(st.depth) >>,
               depth |-> st.depth + 1],
              st.point, direction, st.normal)

\* if node.is_parent(): one level down, into the child that holds point
descend_to(st, p, c) ==
    [st EXCEPT !.parent = p,
               !.child = c,
               !.path = add_child(st.path, c),
               !.depth = st.depth + 1,
               !.stack = StackPut(st.stack, st.depth + 1, p)]

\* t = (bounds - point) / direction
exit_times(st, direction, dir) ==
    [i \in 1..3 |->
        fdiv(split_at(st.path[i], st.depth)
             + (dir[i] * One) \div Pow2(st.depth + 1) - st.point[i],
             direction[i])]

\* the axis whose face the ray leaves the cell through
exit_axis(t) ==
    IF feq(min_element(t), t[1]) THEN 1
    ELSE IF feq(min_element(t), t[2]) THEN 2
    ELSE 3

Unit3(axis, v) == [i \in 1..3 |-> IF i = axis THEN v ELSE 0]

Tuple3(f) == << f[1], f[2], f[3] >>

\* path, normal and point after the step to the next cell; tmin is a number
\* for a direction with a non-zero component
step_to(st, direction, dir, axis, tmin) ==
    [st EXCEPT !.path = Tuple3([i \in 1..3 |->
                            IF i = axis THEN st.path[i] + dir[i]
                            ELSE st.path[i]]),
               !.normal = Tuple3(Unit3(axis, -dir[axis])),
               !.point = Tuple3([i \in 1..3 |->
                            st.point[i] + direction[i] * tmin.v])]

\* for i in (1..=flip).rev(): down the path of the next cell while the
\* nodes are parents
RECURSIVE reascend(_, _, _)
reascend(o, st, i) ==
    IF i < 1 THEN st
    ELSE IF ~is_parent(Index(o, st.parent + st.child))
    THEN [st EXCEPT !.depth = st.depth - i,
                    !.path = << st.path[1] \div Pow2(i),
                                st.path[2] \div Pow2(i),
                                st.path[3] \div Pow2(i) >>]
    ELSE reascend(o,
             [st EXCEPT !.parent = pointer(Index(o, st.parent + st.child)),
                        !.child = extract_child(st.path, i - 1),
                        !.stack = StackPut(st.stack, st.depth - (i - 1),
                                      pointer(Index(o, st.parent + st.child)))],
             i - 1)

\* parent = stack[depth - flip]; child = extract_child(path, flip)
restart_at(st, flip) ==
    [st EXCEPT !.parent = st.stack[st.depth - flip + 1],
               !.child = extract_child(st.path, flip)]

\* the loop of raycast_normalized
RECURSIVE ray_loop(_, _, _, _)
ray_moved(o, direction, dir, st, old_path) ==
    IF flip_of(st.path, old_path) > st.depth THEN None
    ELSE ray_loop(o, direction, dir,
             reascend(o, restart_at(st, flip_of(st.path, old_path)),
                      flip_of(st.path, old_path)))

ray_advance(o, direction, dir, st, t) ==
    ray_moved(o, direction, dir,
              step_to(st, direction, dir, exit_axis(t), min_element(t)),
              st.path)

ray_loop(o, direction, dir, st) ==
    IF is_parent(Index(o, st.parent + st.child))
    THEN ray_loop(o, direction, dir,
             descend_to(st, pointer(Index(o, st.parent + st.child)),
                        select_child(st.point, st.path, st.depth)))
    ELSE IF is_solid(Index(o, st.parent + st.child))
    THEN loop_hit(st, direction)
    ELSE ray_advance(o, direction, dir, st, exit_times(st, direction, dir))

\* |direction| for a direction along an axis
length(direction) == Abs(direction[1]) + Abs(direction[2]) + Abs(direction[3])

\* direction / |direction|
normalize(direction) ==
    << direction[1] \div length(direction), direction[2] \div length(direction),
       direction[3] \div length(direction) >>

\* IVec3::select(side_axis, side_sign, IVec3::ZERO)
entry_normal(point) ==
    Tuple3([i \in 1..3 |-> IF Abs(point[i]) >= One THEN signum(point[i]) ELSE 0])

\* the state before the loop
loop_start(o, point, normal) ==
    [parent |-> pointer(Index(o, root)),
     depth |-> 0,
     child |-> select_initial_child(point),
     path |-> add_child(<<0, 0, 0>>, select_initial_child(point)),
     stack |-> StackPut(Zeros(32), 0, pointer(Index(o, root))),
     point |-> point,
     normal |-> normal]

raycast_from(o, point, direction) ==
    IF is_empty(Index(o, root)) THEN None
    ELSE IF is_solid(Index(o, root))
    THEN OctreeHit(root, BranchRoot, point, <<0, 0, 0>>, entry_normal(point))
    ELSE ray_loop(o, direction,
                  << signum(direction[1]), signum(direction[2]),
                     signum(direction[3]) >>,
                  loop_start(o, point, entry_normal(point)))

raycast_normalized(o, r) ==
    IF ~project(r.origin, r.direction).some THEN None
    ELSE raycast_from(o, project(r.origin, r.direction).point,
                      normalize(r.direction))

(***************************************************************************)
(* The raycaster as a state machine: set builds a tree, and rays are cast  *)
(* at the tree that was built.  raycast_normalized takes &self: a cast     *)
(* leaves the tree alone.                                                  *)
(***************************************************************************)
\* the coordinates of a ray's origin across its direction: outside the
\* cube, on its faces, on the planes between cells and inside cells
Across == { -One, -(3 * One) \div 4, -One \div 2, 0, One \div 4, One, 2 * One }

\* the coordinates of a ray's origin along its direction: outside the cube
\* on either side, on a face, and inside
Along == { -2 * One, -One \div 4, One \div 4, One, 2 * One }

\* the ray along axis with the sign s, from a along the axis and <<u, v>>
\* across it
AxisRay(axis, s, a, u, v) ==
    Ray(CASE axis = 1 -> <<a, u, v>>
          [] axis = 2 -> <<u, a, v>>
          [] axis = 3 -> <<u, v, a>>,
        Tuple3(Unit3(axis, s)))

\* the rays that are cast: along the axes, and one whose direction is not
\* of length 1
Rays ==
    { AxisRay(axis, s, a, u, v) :
        axis \in 1..3, s \in {-1, 1}, a \in Along, u \in Across, v \in Across }
    \cup { Ray(<<2 * One, 0, 0>>, <<-2, 0, 0>>) }

\* rays across the axes, through an edge, through a corner and past an
\* edge of the cube.  Their normalized direction is not on the grid of the
\* model; they are cast at the trees whose root is a leaf, where
\* raycast_normalized uses the direction as it is given, in project, only
DiagonalRays ==
    { Ray(<<2 * One, 2 * One, 0>>, <<-1, -1, 0>>),
      Ray(<<2 * One, 2 * One, 2 * One>>, <<-1, -1, -1>>),
      Ray(<<2 * One, 0, 0>>, <<-1, 1, 0>>),
      Ray(<<2 * One, One, 0>>, <<-1, -1, 0>>) }

\* the rays cast at an octree
CastRays(o) ==
    IF is_parent(Index(o, root)) THEN Rays ELSE Rays \cup DiagonalRays

\* the cells the trees are built of: those of Branches, which lie in the low
\* corners of the cube, and the two cells of depth MaxDepth that meet at its
\* centre
RayBranches ==
    Branches \cup { Branch(0, 0, 0, MaxDepth), Branch(-1, -1, -1, MaxDepth) }

\* a run builds a tree of solid cells, then casts one ray at it
BuildAct ==
    /\ hit = NotCast
    /\ \E b \in RayBranches :
           LET o == set(Octree, b, solid(1, 1, 1)) IN
           /\ Blocks(o) <= MaxBlocks
           /\ nodes' = o.nodes
           /\ free_branches' = o.free_branches
           /\ UNCHANGED aside_octree

RaycastAct ==
    /\ hit = NotCast
    /\ \E r \in CastRays(Octree) :
           /\ ray' = r
           /\ hit' = raycast_normalized(Octree, r)
           /\ UNCHANGED <<nodes, free_branches, cur_branch, segments,
                          underflow, drained, frames, texture, renderer,
                          taken, built, probes>>

NextRay == BuildAct \/ RaycastAct

SpecRay == Init /\ [][NextRay]_vars

(***************************************************************************)
(* The root as a leaf (raycast.rs 131-152).                                *)
(***************************************************************************)
\* origin + t * direction
RayPoint(r, t) ==
    << r.origin[1] + t * r.direction[1], r.origin[2] + t * r.direction[2],
       r.origin[3] + t * r.direction[3] >>

\* the closed cube [-1,1]^3
InCube(p) == \A i \in 1..3 : -One <= p[i] /\ p[i] <= One

\* the ray has a point in the cube; the rays of the model start at most
\* 2 from the centre and reach the cube, if at all, at a whole t
IntersectsCube(r) == \E t \in 0..(4 * One) : InCube(RayPoint(r, t))

\* the first point of the ray in the cube
EntryPoint(r) ==
    RayPoint(r, CHOOSE t \in 0..(4 * One) :
                    /\ InCube(RayPoint(r, t))
                    /\ \A u \in 0..(t - 1) : ~InCube(RayPoint(r, u)))

\* the ray runs in the plane of a face of the cube
InFacePlane(r) ==
    \E i \in 1..3 : r.direction[i] = 0 /\ Abs(r.origin[i]) = One

RootHit(r) ==
    /\ hit.some
    /\ hit.index = 0
    /\ hit.branch = BranchRoot
    /\ hit.point = EntryPoint(r)
    /\ hit.nudge = <<0, 0, 0>>

\* C26: with a leaf as root, a cast at an EMPTY root misses, and a cast at a
\* SOLID root of a ray that intersects the cube [-1,1]^3 hits index 0 and
\* the root branch at the first point of the ray in the cube; the ray
\* ((2,0,0),(-1,0,0)) hits at (1,0,0) with normal (1,0,0).
C26_RootLeaf ==
    (hit # NotCast /\ ~is_parent(Index(Octree, root))) =>
        /\ is_empty(Index(Octree, root)) => ~hit.some
        /\ (is_solid(Index(Octree, root)) /\ IntersectsCube(ray)) =>
               RootHit(ray)
        /\ ( /\ is_solid(Index(Octree, root))
             /\ ray = Ray(<<2 * One, 0, 0>>, <<-1, 0, 0>>) ) =>
               hit.point = <<One, 0, 0>> /\ hit.normal = <<1, 0, 0>>

\* the same for the rays that start in the cube or do not run in the plane
\* of a face, and a miss for the rays that do not intersect the cube
C26_RootLeafOffFacePlanes ==
    (hit # NotCast /\ ~is_parent(Index(Octree, root))) =>
        /\ is_empty(Index(Octree, root)) => ~hit.some
        /\ ( /\ is_solid(Index(Octree, root))
             /\ IntersectsCube(ray)
             /\ (InCube(ray.origin) \/ ~InFacePlane(ray)) ) =>
               RootHit(ray)
        /\ (is_solid(Index(Octree, root)) /\ ~IntersectsCube(ray)) =>
               ~hit.some
        /\ ( /\ is_solid(Index(Octree, root))
             /\ ray = Ray(<<2 * One, 0, 0>>, <<-1, 0, 0>>) ) =>
               hit.point = <<One, 0, 0>> /\ hit.normal = <<1, 0, 0>>

\* a SOLID root, and a ray from outside in the plane of a face that is missed
C26_MissInFacePlane ==
    /\ is_solid(Index(Octree, root))
    /\ ray = Ray(<<2 * One, One, 0>>, <<-1, 0, 0>>)
    /\ hit = None

(***************************************************************************)
(* The normal of a hit.                                                    *)
(***************************************************************************)
NonZero(v) == { i \in 1..3 : v[i] # 0 }

\* C27: every hit has a normal in {-1,0,1}^3 with exactly one non-zero
\* component, also for a ray that starts inside the root cube or enters it
\* through an edge or a corner.
C27_UnitNormal ==
    hit.some =>
        /\ \A i \in 1..3 : hit.normal[i] \in {-1, 0, 1}
        /\ Cardinality(NonZero(hit.normal)) = 1

\* the normal is in {-1,0,1}^3, and has one non-zero component when the
\* ray has passed through an empty cell or has entered through the inside
\* of a face
C27_NormalAfterStepOrFace ==
    hit.some =>
        /\ \A i \in 1..3 : hit.normal[i] \in {-1, 0, 1}
        /\ ( \/ hit.point # project(ray.origin, ray.direction).point
             \/ Cardinality(NonZero(entry_normal(hit.point))) = 1 ) =>
               Cardinality(NonZero(hit.normal)) = 1

\* a hit of a ray from inside the cube, without a normal
C27_NoNormalInside ==
    /\ hit.some
    /\ \A i \in 1..3 : Abs(ray.origin[i]) < One
    /\ hit.normal = <<0, 0, 0>>

\* a hit of a ray that enters through an edge, the normal across the edge
C27_EdgeNormal ==
    /\ hit.some
    /\ ray = Ray(<<2 * One, 2 * One, 0>>, <<-1, -1, 0>>)
    /\ hit.normal = <<1, 1, 0>>

\* a hit of a ray that enters through a corner
C27_CornerNormal ==
    /\ hit.some
    /\ ray = Ray(<<2 * One, 2 * One, 2 * One>>, <<-1, -1, -1>>)
    /\ hit.normal = <<1, 1, 1>>

(***************************************************************************)
(* The node and the branch of a hit.                                       *)
(***************************************************************************)
\* C28: the index of a hit is the pool index of a SOLID leaf, not of an
\* EMPTY or a PARENT node, and the branch of the hit names that node: the
\* descent from the root along hit.branch.child(d), d = 0 .. depth - 1,
\* passes through parents and ends at hit.index.
C28_HitIsSolidLeafAtBranch ==
    hit.some =>
        /\ hit.index < len(Octree)
        /\ is_solid(Index(Octree, hit.index))
        /\ ~is_parent(Index(Octree, hit.index))
        /\ ~is_empty(Index(Octree, hit.index))
        /\ Descend(Octree, hit.branch, root, 0)
               = [index |-> hit.index, depth |-> hit.branch.depth]

\* a hit at depth MaxDepth in the upper half of x, by a ray that came
\* through the lower half: it has passed empty cells of both depths and
\* the plane between two octants
C28_Witness ==
    /\ hit.some
    /\ hit.branch.depth = MaxDepth
    /\ hit.branch.path[1] >= 0
    /\ ray.origin[1] < 0
    /\ ray.direction = <<1, 0, 0>>
    /\ hit.normal = <<-1, 0, 0>>

(***************************************************************************)
(* Octree::generate (mod.rs 66-90) and the generators (generate/).  A      *)
(* generator is [dimensions, depth, solids, glass]: its sample is a        *)
(* solid node at the points of solids, a translucent one at the points of  *)
(* glass and None elsewhere.  Points are on the grid of the raycaster.     *)
(***************************************************************************)
Some(node) == [some |-> TRUE, node |-> node]

\* Generate::sdf
sdf(g, point) ==
    IF point \in g.solids THEN Some(solid(255, 255, 255))
    ELSE IF point \in g.glass THEN Some(translucent(1, 1, 1))
    ELSE None

\* a sample at the low corner of the cell: Vec3::new(ix, iy, iz) / dimensions
sample_point_corner(dimensions, c) ==
    << (c[1] * One) \div dimensions[1], (c[2] * One) \div dimensions[2],
       (c[3] * One) \div dimensions[3] >>

\* Vec3::new(ix + 0.5, iy + 0.5, iz + 0.5) / dimensions.as_vec3()
sample_point(dimensions, c) ==
    << ((2 * c[1] + 1) * One) \div (2 * dimensions[1]),
       ((2 * c[2] + 1) * One) \div (2 * dimensions[2]),
       ((2 * c[3] + 1) * One) \div (2 * dimensions[3]) >>

\* the loops run over 2 * dimensions cells per axis
CellCount(dimensions) == 8 * dimensions[1] * dimensions[2] * dimensions[3]

\* for ix { for iy { for iz: the n-th (ix, iy, iz), n from 0
NthCell(dimensions, n) ==
    << (n \div (4 * dimensions[2] * dimensions[3])) - dimensions[1],
       ((n \div (2 * dimensions[3])) % (2 * dimensions[2])) - dimensions[2],
       (n % (2 * dimensions[3])) - dimensions[3] >>

\* if let Some(node) = sdf.sdf(point) { octree.set(branch, node) }
generate_cell(o, g, c) ==
    IF sdf(g, sample_point(g.dimensions, c)).some
    THEN set(o, [path |-> c, depth |-> g.depth],
             sdf(g, sample_point(g.dimensions, c)).node)
    ELSE o

\* the loops of generate from the n-th cell on; the test on len makes TLC
\* evaluate the octree left by one cell before it starts the next one
RECURSIVE generate_from(_, _, _)
generate_from(o, g, n) ==
    IF n >= CellCount(g.dimensions) THEN o
    ELSE LET o1 == generate_cell(o, g, NthCell(g.dimensions, n)) IN
         IF len(o1) >= 1 THEN generate_from(o1, g, n + 1) ELSE o1

generate(g) == generate_from(new, g, 0)

\* the points the loops sample for dimensions
SamplePoints(dimensions) ==
    { sample_point(dimensions, NthCell(dimensions, n)) :
        n \in 0..(CellCount(dimensions) - 1) }

\* generate::Sphere: point.length() < 1.0
Sphere(radius, depth) ==
    [dimensions |-> <<radius, radius, radius>>, depth |-> depth,
     solids |-> { p \in SamplePoints(<<radius, radius, radius>>) :
                    p[1] * p[1] + p[2] * p[2] + p[3] * p[3] < One * One },
     glass |-> {}]

\* generators of 2 cells per axis, at depth 1, where the cells are the
\* octants, and at depth 2, where they are the 8 cells at the centre: every
\* choice of the solid cells, the others empty or translucent
SmallGenerators ==
    { [dimensions |-> <<1, 1, 1>>, depth |-> depth, solids |-> s, glass |-> t] :
        depth \in 1..MaxDepth, s \in SUBSET SamplePoints(<<1, 1, 1>>),
        t \in { {}, SamplePoints(<<1, 1, 1>>) } }

\* generators that fill the grid of depth 2: the sphere, everything solid,
\* the half of the cube below x = 0, everything but one translucent cell,
\* one octant, and a generator with fewer cells across y and z
WideGenerators ==
    LET all == SamplePoints(<<2, 2, 2>>) IN
    { Sphere(2, 2),
      [dimensions |-> <<2, 2, 2>>, depth |-> 2, solids |-> all, glass |-> {}],
      [dimensions |-> <<2, 2, 2>>, depth |-> 2,
       solids |-> { p \in all : p[1] < 0 }, glass |-> {}],
      [dimensions |-> <<2, 2, 2>>, depth |-> 2,
       solids |-> { p \in all : p # <<One \div 4, One \div 4, One \div 4>> },
       glass |-> all],
      [dimensions |-> <<2, 2, 2>>, depth |-> 2,
       solids |-> { p \in all : p[1] > 0 /\ p[2] < 0 /\ p[3] > 0 },
       glass |-> {}],
      [dimensions |-> <<2, 1, 1>>, depth |-> 2,
       solids |-> SamplePoints(<<2, 1, 1>>), glass |-> {}] }

Generators == SmallGenerators \cup WideGenerators

\* let octree = Octree::generate(&g): generate constructs the octree, a run
\* constructs one
GenerateAct ==
    /\ generator = NoGenerator
    /\ \E g \in Generators :
           /\ generator' = g
           /\ nodes' = generate(g).nodes
           /\ free_branches' = generate(g).free_branches
           /\ UNCHANGED <<cur_branch, segments, underflow, drained, frames,
                          texture, renderer, taken, caster, csg, probes>>

SpecGenerate == Init /\ [][GenerateAct]_vars

\* the centre of the i-th of the 2 * dim cells across [-1, 1], i from -dim
CellCentre(dim, i) == ((2 * (i + dim) + 1) * One) \div (2 * dim) - One

\* the loops visit the cell
InDimensions(g, c) ==
    \A i \in 1..3 : -g.dimensions[i] <= c[i] /\ c[i] < g.dimensions[i]

\* the sample at the centre of the cell
CentreSample(g, c) ==
    sdf(g, << CellCentre(g.dimensions[1], c[1]),
              CellCentre(g.dimensions[2], c[2]),
              CellCentre(g.dimensions[3], c[3]) >>)

\* C29: the non-empty cells of generate(g) at depth g.depth() are the
\* cells (ix, iy, iz) of [-dim, dim) per axis whose sample at the centre of
\* the cell is non-empty, and each holds the node of the sample; when no
\* sample is non-empty the octree is the empty one, len 1 and an EMPTY root.
C29_GenerateSamples ==
    generator # NoGenerator =>
        /\ \A cell \in Cells(generator.depth) :
               Lookup(Octree, cell) =
                   IF /\ InDimensions(generator, cell.path)
                      /\ CentreSample(generator, cell.path).some
                   THEN CentreSample(generator, cell.path).node
                   ELSE empty
        /\ (generator.solids \cup generator.glass) = {} =>
               nodes = <<empty>>

\* the sphere at depth 2: 32 of the 64 cells, in all 8 octants
C29_Witness ==
    /\ generator = Sphere(2, 2)
    /\ len(Octree) = 1 + 8 * 9
    /\ Lookup(Octree, Branch(0, 0, 0, 2)) = solid(255, 255, 255)
    /\ Lookup(Octree, Branch(1, 1, 1, 2)) = empty

\* a generator without samples leaves the empty octree
C29_WitnessEmpty ==
    /\ generator # NoGenerator
    /\ generator.solids \cup generator.glass = {}
    /\ nodes = <<empty>>

(***************************************************************************)
(* The calls join and difference make on the host (mod.rs 292-356).        *)
(***************************************************************************)
\* self.set(other_branch, *node)
SetCall(branch, node) == [op |-> "set", branch |-> branch, node |-> node]

\* self.remove(other_branch)
RemoveCall(branch) == [op |-> "remove", branch |-> branch]

\* the calls made for one leaf of the template, in the order of the loops
LeafCalls(op, branches, node) ==
    [n \in 1..Len(branches) |->
        IF op = "join" THEN SetCall(branches[n], node)
        ELSE RemoveCall(branches[n])]

\* the calls of one join or difference, leaf after leaf of other.iter_nodes()
RECURSIVE HostCallsFrom(_, _, _, _, _)
HostCallsFrom(op, branch, depth, leaves, k) ==
    IF k > Len(leaves) THEN <<>>
    ELSE LeafCalls(op, HostBranches(branch, depth, leaves[k].branch),
                   leaves[k].node)
         \o HostCallsFrom(op, branch, depth, leaves, k + 1)

\* the calls of join and difference of this section: those of Calls, and
\*   a leaf at depth 0 onto a depth-2 branch (offset -2): the 64 cells of
\*     depth 2;
\*   a leaf at depth 0 onto a depth-1 branch, one level down (offset -1):
\*     the 8 cells of depth 2 at the centre;
\*   a leaf at depth 1 onto the root, one level down (offset 1)
HostCalls ==
    Calls \cup
    { <<Branch(-2, -2, -2, 2), 0, TemplateRoot>>,
      <<Branch(-1, -1, -1, 1), 1, TemplateRoot>>,
      <<BranchRoot, 1, TemplateOctant>> }

\* the call and the calls it makes on the host
CsgCall(op, c) ==
    [op |-> op, branch |-> c[1], depth |-> c[2], other |-> c[3],
     calls |-> HostCallsFrom(op, c[1], c[2], iter_nodes(c[3]), 1)]

\* a run of this section joins templates into the host and then takes one
\* out of it
HostJoinAct ==
    /\ csg.op # "difference"
    /\ \E c \in HostCalls :
           LET o == join(Octree, c[1], c[2], c[3]) IN
           /\ Blocks(o) <= MaxBlocks
           /\ nodes' = o.nodes
           /\ free_branches' = o.free_branches
           /\ csg' = CsgCall("join", c)
           /\ UNCHANGED <<cur_branch, segments, underflow, drained, frames,
                          texture, renderer, taken, caster, generator,
                          probes>>

HostDifferenceAct ==
    /\ csg.op = "join"
    /\ \E c \in HostCalls :
           LET o == difference(Octree, c[1], c[2], c[3]) IN
           /\ Blocks(o) <= MaxBlocks
           /\ nodes' = o.nodes
           /\ free_branches' = o.free_branches
           /\ csg' = CsgCall("difference", c)
           /\ UNCHANGED <<cur_branch, segments, underflow, drained, frames,
                          texture, renderer, taken, caster, generator,
                          probes>>

NextHost == HostJoinAct \/ HostDifferenceAct

SpecHost == Init /\ [][NextHost]_vars

\* the host branches of the template leaf (p, D) for join(target, d, ..)
ClaimedBranches(target, d, leaf) ==
    LET offset == leaf.depth - target.depth IN
    IF offset >= 0
    THEN { [path |-> << leaf.path[1] + target.path[1] * Pow2(offset),
                        leaf.path[2] + target.path[2] * Pow2(offset),
                        leaf.path[3] + target.path[3] * Pow2(offset) >>,
            depth |-> leaf.depth + d] }
    ELSE { [path |-> << leaf.path[1] * Pow2(-offset) + target.path[1] + x,
                        leaf.path[2] * Pow2(-offset) + target.path[2] + y,
                        leaf.path[3] * Pow2(-offset) + target.path[3] + z >>,
            depth |-> leaf.depth + d - offset] :
             x, y, z \in 0..(Pow2(-offset) - 1) }

\* the calls claimed for one leaf of the template
ClaimedCalls(call, leaf) ==
    { IF call.op = "join" THEN SetCall(b, leaf.node) ELSE RemoveCall(b) :
        b \in ClaimedBranches(call.branch, call.depth, leaf.branch) }

\* how often the call c is made
TimesCalled(made, c) == Cardinality({ i \in 1..Len(made) : made[i] = c })

\* how often the call c is claimed
TimesClaimed(call, c) ==
    Cardinality({ k \in 1..Len(iter_nodes(call.other)) :
                    c \in ClaimedCalls(call, iter_nodes(call.other)[k]) })

C30_WitnessShift ==
    /\ csg # NoCall
    /\ csg.op = "difference"
    /\ csg.branch = Branch(-1, -1, -1, 1)
    /\ csg.other = TemplateDeep
    /\ csg.calls = << RemoveCall(Branch(-2, -2, -2, 2)) >>

(***************************************************************************)
(* Segment::join by itself (dynamic.rs 43-51).                             *)
(***************************************************************************)
\* the segments join is called with: starts and lengths that make the two
\* segments apart, touching, overlapping, nested and equal; a length of 0
\* is a segment that update_segment has shrunk to nothing
JoinedSegments ==
    { Segment(st, ln) : st \in {0, 5, 10, 15, 20}, ln \in {0, 5, 10, 15} }

\* let out = a.join(b)
SegmentJoinAct ==
    \E a, b \in JoinedSegments :
        /\ probe' = [op |-> "Segment::join", a |-> a, b |-> b,
                     out |-> Segment_join(a, b)]
        /\ UNCHANGED <<nodes, free_branches, cur_branch, segments, underflow,
                       drained, frames, texture, renderer, taken, caster,
                       built, twin>>

SpecJoin == Init /\ [][SegmentJoinAct]_vars

\* the segments from which a cover of two joined segments is taken
CoverSegments == { Segment(st, ln) : st \in 0..20, ln \in 0..35 }

\* C31: Segment::join(a, b) is the smallest segment that covers a and b:
\* its start is min(a.start, b.start), its end max(a.end, b.end); join is
\* commutative, join(a, a) == a, and join((0,10), (5,10)) == (0,15).
C31_SegmentJoin ==
    probe.op = "Segment::join" =>
        /\ probe.out.start = Min(probe.a.start, probe.b.start)
        /\ Segment_end(probe.out)
               = Max(Segment_end(probe.a), Segment_end(probe.b))
        /\ Covers(probe.out, probe.a)
        /\ Covers(probe.out, probe.b)
        /\ \A c \in CoverSegments :
               (Covers(c, probe.a) /\ Covers(c, probe.b)) =>
                   Covers(c, probe.out)
        /\ probe.out = Segment_join(probe.b, probe.a)
        /\ probe.a = probe.b => probe.out = probe.a
        /\ (probe.a = Segment(0, 10) /\ probe.b = Segment(5, 10)) =>
               probe.out = Segment(0, 15)

\* the example of tests::segment_join, with the arguments exchanged
C31_Witness ==
    /\ probe.op = "Segment::join"
    /\ probe.a = Segment(5, 10)
    /\ probe.b = Segment(0, 10)
    /\ probe.out = Segment(0, 15)

(***************************************************************************)
(* The blocks of the pool that are neither in the tree nor free.           *)
(***************************************************************************)
\* the blocks of nodes[1..] that no PARENT reachable from the root points
\* to and that free_branches does not list
LeakedBlocks(o) == BlockStarts(o) \ (LivePointers(o) \cup FreeSet(o))

\* C32: after any sequence of set / remove / join / difference calls every
\* 8-node block of nodes[1..] is reachable from the root through PARENT
\* pointers or listed in free_branches: no block is leaked, also when set
\* or remove overwrites a slot that holds a PARENT.
C32_NoLeakedBlock == LeakedBlocks(Octree) = {}

\* every leaked block is one that was cut off below an overwritten PARENT:
\* blocks in the tree and free blocks are never both, and a block is never
\* listed twice
C32_LiveAndFreeApart ==
    /\ LivePointers(Octree) \cap FreeSet(Octree) = {}
    /\ Cardinality(FreeSet(Octree)) = Len(free_branches)
    /\ LivePointers(Octree) \cup FreeSet(Octree) \subseteq BlockStarts(Octree)

(***************************************************************************)
(* An Octree beside a DynamicOctree: both start as new / empty and are     *)
(* given the same calls of set, remove, join and difference; the segments  *)
(* of the DynamicOctree are drained between calls as World does once a     *)
(* frame.  The Octree is the variable twin.                                *)
(*                                                                         *)
(* A call on the DynamicOctree in which remove_branch executes             *)
(* `segment.len -= 8` with len < 8 has two outcomes: a build with overflow *)
(* checks panics at that line and leaves the octree as it was there, one   *)
(* without wraps the length and runs the call to its end.  The second      *)
(* outcome leaves the nodes and the free list the call leaves on the       *)
(* octree inside (the segments are not read by any of the four calls) and  *)
(* a last segment whose wrapped length the model does not spell out:       *)
(* underflow stays TRUE and no further call is made.                       *)
(***************************************************************************)
\* the octree inside the DynamicOctree (Deref)
Deref == [nodes |-> nodes, free_branches |-> free_branches]

\* the branches of the calls: octants 0 and 2 and the lowest cell of
\* octant 2
LockBranches ==
    {Branch(-1, -1, -1, 1), Branch(-1, 0, -1, 1), Branch(-2, 0, -2, 2)}

\* the calls of join and difference
LockCalls ==
    { <<BranchRoot, 0, TemplatePair>>,
      <<Branch(-1, 0, -1, 1), 1, TemplateOctant>> }

\* d: what the call leaves of the DynamicOctree (up to the panic, if there
\* is one); w: what the call run to its end leaves of the octree inside;
\* o: what the call leaves of the Octree
LockStore(d, w, o, name) ==
    /\ Blocks(o) <= MaxDynamicBlocks
    /\ Blocks(w) <= MaxDynamicBlocks
    /\ twin' = o
    /\ IF ~d.underflow
       THEN /\ StoreDynamic(d)
            /\ probe' = [op |-> name, outcome |-> "returned"]
       ELSE \/ /\ StoreDynamic(d)
               /\ probe' = [op |-> name, outcome |-> "panicked"]
            \/ /\ nodes' = w.nodes
               /\ free_branches' = w.free_branches
               /\ segments' = d.segments
               /\ underflow' = TRUE
               /\ probe' = [op |-> name, outcome |-> "wrapped"]
    /\ UNCHANGED <<cur_branch, drained, frames, texture, renderer, taken,
                   caster, built>>

LockSetAct ==
    \E b \in LockBranches, n \in Leaves :
        /\ ~underflow
        /\ LockStore(DynamicOctree_set(DynamicOctree, b, n),
                     set(Deref, b, n), set(twin, b, n), "set")

LockRemoveAct ==
    \E b \in LockBranches :
        /\ ~underflow
        /\ LockStore(DynamicOctree_remove(DynamicOctree, b),
                     remove(Deref, b), remove(twin, b), "remove")

LockJoinAct ==
    \E c \in LockCalls :
        /\ ~underflow
        /\ LockStore(DynamicOctree_join(DynamicOctree, c[1], c[2], c[3]),
                     join(Deref, c[1], c[2], c[3]),
                     join(twin, c[1], c[2], c[3]), "join")

LockDifferenceAct ==
    \E c \in LockCalls :
        /\ ~underflow
        /\ LockStore(DynamicOctree_difference(DynamicOctree, c[1], c[2], c[3]),
                     difference(Deref, c[1], c[2], c[3]),
                     difference(twin, c[1], c[2], c[3]), "difference")

NextLock ==
    \/ LockSetAct
    \/ LockRemoveAct
    \/ LockJoinAct
    \/ LockDifferenceAct
    \/ ClearSegmentsAct

SpecLock == Init /\ [][NextLock]_vars

\* C33: the same sequence of set / remove / join / difference calls on an
\* Octree and on a DynamicOctree that start equal leaves nodes and
\* free_branches identical in both after every call.
C33_SameOctreeAfterEveryCall ==
    /\ nodes = twin.nodes
    /\ free_branches = twin.free_branches

\* the two are identical after every call that returned, with or without
\* a wrapped segment length
C33_SameOctreeAfterReturn ==
    (probe.op = "none" \/ probe.outcome # "panicked") =>
        /\ nodes = twin.nodes
        /\ free_branches = twin.free_branches

\* a call that returned with blocks both in the tree and on the free list
C33_Returned ==
    /\ probe.op # "none"
    /\ probe.outcome = "returned"
    /\ Len(free_branches) > 0
    /\ is_parent(nodes[1])

\* a call that ran to its end with a wrapped segment length
C33_Wrapped ==
    /\ probe.op # "none"
    /\ probe.outcome = "wrapped"
    /\ nodes = twin.nodes

\* a call that panicked before a step that changes the nodes
C33_PanickedShort ==
    /\ probe.op # "none"
    /\ probe.outcome = "panicked"
    /\ nodes # twin.nodes

(***************************************************************************)
(* push_branch and remove_branch called by themselves on an Octree built   *)
(* by set and remove.  A run makes one such call and stops: the result is  *)
(* kept in the variables, the octree before the call and the index in      *)
(* probe.                                                                  *)
(***************************************************************************)
\* set and remove, until push_branch or remove_branch has been called
PoolEditAct == probe = NoProbe /\ (SetAct \/ RemoveAct)

\* let index = octree.push_branch()
PushBranchAct ==
    /\ probe = NoProbe
    /\ Blocks(Octree) <= MaxBlocks
    /\ nodes' = push_branch(Octree).oct.nodes
    /\ free_branches' = push_branch(Octree).oct.free_branches
    /\ probe' = [op |-> "push_branch", before |-> Octree,
                 index |-> push_branch(Octree).index]
    /\ UNCHANGED <<cur_branch, segments, underflow, drained, frames, texture,
                   renderer, taken, caster, built, twin>>

\* octree.remove_branch(index) on the index of a block of the pool
RemoveBranchAct ==
    \E index \in BlockStarts(Octree) :
        /\ probe = NoProbe
        /\ nodes' = remove_branch(Octree, index).nodes
        /\ free_branches' = remove_branch(Octree, index).free_branches
        /\ probe' = [op |-> "remove_branch", before |-> Octree,
                     index |-> index]
        /\ UNCHANGED <<cur_branch, segments, underflow, drained, frames,
                       texture, renderer, taken, caster, built, twin>>

NextPool == PoolEditAct \/ PushBranchAct \/ RemoveBranchAct

SpecPool == Init /\ [][NextPool]_vars

\* the last entry of a non-empty free list
LastFree(o) == o.free_branches[Len(o.free_branches)]

\* C34: remove_branch(i) truncates the node array to length i when
\* i == len - 8 and otherwise pushes i on the free list and leaves len
\* unchanged; push_branch returns the most recently freed block with its 8
\* nodes reset to EMPTY when the free list is non-empty, and only otherwise
\* grows the array by 8 EMPTY nodes and returns the old len.
C34_PushAndRemoveBranch ==
    /\ probe.op = "remove_branch" =>
           IF probe.index = len(probe.before) - 8
           THEN /\ nodes = SubSeq(probe.before.nodes, 1, probe.index)
                /\ free_branches = probe.before.free_branches
           ELSE /\ nodes = probe.before.nodes
                /\ free_branches
                       = Append(probe.before.free_branches, probe.index)
    /\ probe.op = "push_branch" =>
           IF probe.before.free_branches # <<>>
           THEN /\ probe.index = LastFree(probe.before)
                /\ free_branches
                       = SubSeq(probe.before.free_branches, 1,
                                Len(probe.before.free_branches) - 1)
                /\ Len(nodes) = len(probe.before)
                /\ \A k \in 0..(Len(nodes) - 1) :
                       Index(Octree, k)
                           = IF k \in probe.index..(probe.index + 7)
                             THEN empty
                             ELSE Index(probe.before, k)
           ELSE /\ probe.index = len(probe.before)
                /\ nodes = probe.before.nodes \o Eight(empty)
                /\ free_branches = <<>>

\* push_branch took the last of two free blocks, which held a node
C34_WitnessReuse ==
    /\ probe.op = "push_branch"
    /\ Len(probe.before.free_branches) = 2
    /\ \E c \in 0..7 : Index(probe.before, probe.index + c) # empty

\* push_branch grew the pool
C34_WitnessGrow ==
    /\ probe.op = "push_branch"
    /\ probe.before.free_branches = <<>>
    /\ len(Octree) = len(probe.before) + 8

\* remove_branch truncated
C34_WitnessTruncate ==
    /\ probe.op = "remove_branch"
    /\ len(Octree) = probe.index
    /\ len(probe.before) = probe.index + 8

\* remove_branch pushed on a free list that was not empty
C34_WitnessFree ==
    /\ probe.op = "remove_branch"
    /\ probe.before.free_branches # <<>>
    /\ len(Octree) = len(probe.before)
    /\ LastFree(Octree) = probe.index

(***************************************************************************)
(* Branches down to depth 32: from Branch::root(), with_child is applied   *)
(* along a sequence of child indices, and child is called on the branch    *)
(* reached.  probe holds the sequence, the branch before the last          *)
(* with_child and the last call of child with its result.                  *)
(***************************************************************************)
\* the child indices a sequence goes on with: any two first, then the
\* last two again and again
DeepChildren(children) ==
    IF Len(children) < 2 THEN 0..7
    ELSE {children[Len(children) - 1]}

\* the sequence of child indices that led to cur_branch
Children == IF probe.op = "none" THEN <<>> ELSE probe.children

\* cur_branch = cur_branch.with_child(c)
DeepWithChildAct ==
    \E c \in DeepChildren(Children) :
        /\ probe.op \in {"none", "with_child"}
        /\ cur_branch.depth < PathBits
        /\ cur_branch' = with_child(cur_branch, c)
        /\ probe' = [op |-> "with_child", children |-> Append(Children, c),
                     before |-> cur_branch]
        /\ UNCHANGED <<nodes, free_branches, segments, underflow, drained,
                       frames, texture, renderer, taken, caster, built, twin>>

\* child(depth) panics when one of the three sums of is_positive overflows
\* and the build checks overflow
child_overflows(b) ==
    \E axis \in 1..3 : is_positive_overflows(b, b.path[axis])

\* let out = cur_branch.child(depth)
DeepChildAct ==
    \E depth \in 0..(PathBits - 1) :
        /\ probe.op = "with_child"
        /\ depth < cur_branch.depth
        /\ \/ probe' = [op |-> "child", children |-> probe.children,
                        depth |-> depth,
                        out |-> [panicked |-> FALSE,
                                 child |-> child(cur_branch, depth)]]
           \/ /\ child_overflows(cur_branch)
              /\ probe' = [op |-> "child", children |-> probe.children,
                           depth |-> depth,
                           out |-> [panicked |-> TRUE, child |-> 0]]
        /\ UNCHANGED <<nodes, free_branches, cur_branch, segments, underflow,
                       drained, frames, texture, renderer, taken, caster,
                       built, twin>>

NextDeep == DeepWithChildAct \/ DeepChildAct

SpecDeep == Init /\ [][NextDeep]_vars

\* -2^(k-1) <= p < 2^(k-1), for 1 <= k <= 32
InHalfRange(p, k) ==
    IF k = 1 THEN p \in {-1, 0}
    ELSE /\ (0 - Pow2(k - 2)) - Pow2(k - 2) <= p
         /\ p <= (Pow2(k - 2) - 1) + Pow2(k - 2)

\* (c & 1, (c >> 1) & 1, (c >> 2) & 1)
ChildOffset(c, axis) == (c \div Pow2(axis - 1)) % 2

\* what the claim says of with_child: depth, range of the path, and the
\* step below the root
WithChildAsClaimed ==
    /\ cur_branch.depth = Len(probe.children)
    /\ \A axis \in 1..3 : InHalfRange(cur_branch.path[axis], cur_branch.depth)
    /\ (probe.op = "with_child" /\ probe.before.depth > 0) =>
           \A axis \in 1..3 :
               cur_branch.path[axis]
                   = probe.before.path[axis] * 2
                     + ChildOffset(probe.children[Len(probe.children)], axis)

\* C35: for every sequence c_0 .. c_(k-1) of child indices with k <= 32
\* the branch b made from Branch::root() by with_child(c_i) in turn has
\* depth k and a path inside [-2^(k-1), 2^(k-1)) per axis, b.child(d) is
\* c_d for every d < k, and below the root each with_child step computes
\* path * 2 + (c & 1, (c >> 1) & 1, (c >> 2) & 1).
C35_WithChildSequence ==
    probe.op \in {"with_child", "child"} =>
        /\ WithChildAsClaimed
        /\ probe.op = "child" =>
               /\ ~probe.out.panicked
               /\ probe.out.child = probe.children[probe.depth + 1]

\* the same, but child may panic at depth 32 on a branch with a negative
\* path component, and only there
C35_WithChildSequenceBelow32 ==
    probe.op \in {"with_child", "child"} =>
        /\ WithChildAsClaimed
        /\ probe.op = "child" =>
               IF probe.out.panicked
               THEN /\ cur_branch.depth = PathBits
                    /\ \E axis \in 1..3 : cur_branch.path[axis] < 0
               ELSE probe.out.child = probe.children[probe.depth + 1]

\* child(31) of a branch of depth 32 returned, without overflow
C35_WitnessDeepest ==
    /\ probe.op = "child"
    /\ cur_branch.depth = PathBits
    /\ probe.depth = PathBits - 1
    /\ ~child_overflows(cur_branch)
    /\ probe.out.child = 7

\* child(0) of a branch of depth 32 returned from a wrapped sum
C35_WitnessWrapped ==
    /\ probe.op = "child"
    /\ cur_branch.depth = PathBits
    /\ probe.depth = 0
    /\ child_overflows(cur_branch)
    /\ ~probe.out.panicked
    /\ probe.out.child = 5

(***************************************************************************)
(* What iter_nodes is to yield: the leaves of the tree that are not empty, *)
(* each with the branch that with_child builds along the way to it.        *)
(***************************************************************************)
\* the non-empty leaves at and below slot index, which branch names,
\* followed through at most fuel levels of parents
RECURSIVE LeavesBelow(_, _, _, _)
LeavesBelow(o, index, branch, fuel) ==
    LET node == Index(o, index) IN
    IF is_parent(node)
    THEN IF fuel = 0 THEN {}
         ELSE UNION { LeavesBelow(o, pointer(node) + c, with_child(branch, c),
                                  fuel - 1) : c \in 0..7 }
    ELSE IF is_empty(node) THEN {}
    ELSE { [branch |-> branch, node |-> node] }

\* yielded is a sequence without repetition of exactly the non-empty
\* leaves of o, and holds no EMPTY and no PARENT node
YieldsLeavesOnce(o, yielded) ==
    /\ \A k \in 1..Len(yielded) :
           ~is_empty(yielded[k].node) /\ ~is_parent(yielded[k].node)
    /\ \A j, k \in 1..Len(yielded) :
           j # k => yielded[j].branch # yielded[k].branch
    /\ { yielded[k] : k \in 1..Len(yielded) }
           = LeavesBelow(o, root, BranchRoot, Blocks(o))
    /\ is_empty(Index(o, root)) => yielded = <<>>

\* C36: iter_nodes() comes to its end on every well-formed tree and yields
\* each non-empty leaf reachable from the root exactly once, with the
\* branch built by with_child along its path; it never yields an EMPTY or
\* a PARENT node, and yields nothing when the root is EMPTY.
C36_IterNodesYieldsLeavesOnce ==
    /\ SoundBelow(Octree, root, {})
    /\ YieldsLeavesOnce(Octree, iter_nodes(Octree))

\* a tree with a parent below the root, leaves at depth 1 and at depth 2
\* and empty slots beside them
C36_Witness ==
    /\ Len(iter_nodes(Octree)) >= 3
    /\ \E q \in LivePointers(Octree) : q # pointer(Index(Octree, root))
    /\ \E k \in 1..Len(iter_nodes(Octree)) :
           iter_nodes(Octree)[k].branch.depth = 1
    /\ \E q \in LivePointers(Octree), c \in 0..7 :
           is_empty(Index(Octree, q + c))

\* an EMPTY root above blocks that are still in the pool: nothing yielded
C36_WitnessEmptyRoot ==
    /\ is_empty(Index(Octree, root))
    /\ len(Octree) > 1
    /\ \E k \in 1..(len(Octree) - 1) : ~is_empty(Index(Octree, k))
    /\ iter_nodes(Octree) = <<>>

(***************************************************************************)
(* The extent of the writes within the texture                             *)
(***************************************************************************)
\* the write w stays inside the texture t: a row write (extent.height 1,
\* one layer) has x + width <= PAGE_WIDTH and row < page_height, a write
\* of rows has row + rows <= page_height, a write of pages has
\* page + pages <= page_count, and each starts on a page of the texture
WriteInside(t, w) ==
    /\ w.origin[1] + w.extent[1] <= PAGE_SIZE
    /\ w.origin[2] + w.extent[2] <= t.page_height
    /\ w.origin[2] < t.page_height
    /\ w.origin[3] + w.extent[3] <= t.page_count
    /\ w.origin[3] < t.page_count

WritesInside(t, ws) == \A k \in 1..Len(ws) : WriteInside(t, ws[k])

\* C37: every write that write_segment issues for a segment that ends
\* within the capacity of the texture stays inside the texture: a row
\* write has x + width <= PAGE_WIDTH and row < page_height, a write of
\* several rows row + rows <= page_height, a write of pages
\* page + pages <= page_count, and every write has page < page_count.
C37_WritesInsideTexture ==
    /\ WritesInside(DrawOctree, writes)
    /\ \A s \in WrittenSegments(DrawOctree) :
          WritesInside(DrawOctree, write_segment_writes(DrawOctree, s))

\* a segment written by a part of a row, rows to the end of the page, a
\* whole page, and rows and a part of a row on the last page
C37_Witness ==
    /\ page_count = 3
    /\ Len(writes) = 5
    /\ writes[1].origin[1] > 0
    /\ writes[2].origin[2] + writes[2].extent[2] = page_height
    /\ writes[3].origin[3] + writes[3].extent[3] = page_count - 1
    /\ writes[5].origin[3] = page_count - 1
    /\ Segment_end(last_segment) <= DrawOctree_size(DrawOctree)

(***************************************************************************)
(* The address of a node in the texture, and the copy of resize            *)
(***************************************************************************)
\* the texel <<x, row, page>> of node p in the texture t, as write_segment
\* computes it: row = offset / bytes_per_row, page = row / page_height,
\* row %= page_height
NodeTexel(t, p) ==
    << ((p * NodeBytes) % bytes_per_row) \div NodeBytes,
       ((p * NodeBytes) \div bytes_per_row) % t.page_height,
       ((p * NodeBytes) \div bytes_per_row) \div t.page_height >>

\* the extent resize copies from the old texture t, from origin ZERO to
\* origin ZERO
resize_copy(t) == <<PAGE_SIZE, t.page_height, t.page_count>>

\* the texel is inside an extent at origin ZERO, so the copy puts it at
\* the same coordinates of the new texture
InCopy(extent, texel) == \A axis \in 1..3 : texel[axis] < extent[axis]

\* node indices below the capacity of t: the first and last of the first
\* row, of the first page and of the texture, and their neighbours
NodesBelow(t) ==
    { p \in {0, 1, PAGE_SIZE - 1, PAGE_SIZE, page_size(t) - 1, page_size(t),
             DrawOctree_size(t) - PAGE_SIZE, DrawOctree_size(t) - 1} :
        0 <= p /\ p < DrawOctree_size(t) }

\* r is t resized: every node below the capacity of t has the same texel
\* in both, and the copy covers it
AddressesKept(t, r) ==
    \A p \in NodesBelow(t) :
        /\ NodeTexel(r, p) = NodeTexel(t, p)
        /\ InCopy(resize_copy(t), NodeTexel(t, p))
        /\ InsideTexture(r, NodeTexel(t, p))

\* the nodes of the writes ws are at the texels the texture t has for them
UploadedInPlace(t, ws) ==
    \A k \in 1..Len(ws) :
        \A p \in { ws[k].src \div NodeBytes,
                   ((ws[k].src + ws[k].bytes) \div NodeBytes) - 1 } :
            ws[k].bytes > 0 => WrittenTexel(ws[k], p) = NodeTexel(t, p)

\* C38: in every state reached through resize, page_count > 1 implies
\* page_height == PAGE_WIDTH, so the texel (x, row, page) of every node
\* index below the old capacity is the same before and after a resize, and
\* the copy of the old region PAGE_WIDTH x old_page_height x
\* old_page_count to origin 0 keeps every uploaded node at its address.
C38_ResizeKeepsAddresses ==
    /\ page_count > 1 => page_height = PAGE_SIZE
    /\ \A size \in ResizeSizes :
          AddressesKept(DrawOctree, resize(DrawOctree, size))
    /\ UploadedInPlace(DrawOctree, writes)

\* a page was written when the texture had one page of fewer rows, and the
\* texture has since grown to full height and more pages
C38_Witness ==
    /\ page_count > 1
    /\ \E k \in 1..Len(writes) :
           /\ writes[k].phase = "full pages"
           /\ writes[k].extent[2] > 1
           /\ writes[k].extent[2] < page_height

(***************************************************************************)
(* The shape of the pool: the root, then blocks of 8 nodes                 *)
(***************************************************************************)
\* the pointers of all PARENT nodes of the pool, also of those in blocks
\* that are free or unreachable
AllPointers(o) ==
    { pointer(Index(o, k)) : k \in { j \in 0..(len(o) - 1) :
                                        is_parent(Index(o, j)) } }

\* C39: after any sequence of set / remove / join / difference calls
\* nodes[0] exists and len == 1 + 8k for some k >= 0, and every PARENT
\* pointer and every free-list entry is congruent to 1 modulo 8.
C39_PoolShape ==
    /\ len(Octree) >= 1
    /\ len(Octree) % 8 = 1
    /\ \A q \in LivePointers(Octree) \cup AllPointers(Octree) : q % 8 = 1
    /\ \A q \in FreeSet(Octree) : q % 8 = 1

\* a pool of three blocks with one of them free and two in the tree
C39_Witness ==
    /\ len(Octree) = 25
    /\ Len(free_branches) = 1
    /\ Cardinality(LivePointers(Octree)) = 2

=============================================================================
